---- MODULE Spec2Model ----
(***************************************************************************)
(* Model of the zai-proxy streaming transformation core: the citation      *)
(* rewrite filter (SearchRefFilter), the thinking filter, the embedded     *)
(* block helpers and the four response handlers of internal/claude.go.     *)
(*                                                                         *)
(* Text is a sequence of characters.  Every character is a one-character   *)
(* string, except the two CJK brackets U+3010 and U+3011, which are        *)
(* written LB and RB and are three bytes long in UTF-8.  Go indexes from 0 *)
(* and answers -1 for "not found"; the model indexes from 1 and answers 0. *)
(***************************************************************************)
EXTENDS Integers, Sequences, FiniteSets, TLC

VARIABLES
    input,      \* filter harness: the text handed to the filter, chunk by chunk
    pos,        \* filter harness: number of characters of input already processed
    filter,     \* filter harness: the SearchRefFilter {buffer, searchResults}
    emitted,    \* filter harness: concatenation of the Process/Flush results so far
    fpc,        \* filter harness: "feeding" | "flushed" | "idle"
    pool,       \* handlers: the lines the upstream body is made of
    read,       \* handlers: the upstream lines read so far
    ost,        \* handleStreamResponse: locals and the events written
    ons,        \* handleNonStreamResponse: locals and the response
    cst,        \* handleClaudeStreamResponse: locals and the events written
    cns,        \* handleClaudeNonStreamResponse: locals and the response
    hpc,        \* handlers: "start" | "scanning" | "closed" | "idle"
    think,      \* thinking harness: reasoning text, deltas given, filter, output
    parse,      \* block harness: the value put in a block and what the parsers return
    name,       \* model name harness: base name, suffixes and what ParseModelName returns
    req,        \* one client request: headers, body, handler position, response
    conc        \* two requests served at once: for each its body and its handler

\* the variables of the harnesses of single functions
pureVars == <<think, parse, name>>

vars == <<input, pos, filter, emitted, fpc, pool, read, ost, ons, cst, cns, hpc, pureVars, req, conc>>

(***************************************************************************)
(* Characters and strings                                                  *)
(***************************************************************************)
LB == "LB"
RB == "RB"
Digits == {"0", "1", "2", "3", "4", "5", "6", "7", "8", "9"}

RuneBytes(c) == IF c \in {LB, RB} THEN 3 ELSE 1

\* the number of bytes of the first j characters of s: one for each, and two
\* more for each of the brackets among them
BytesUpTo(s, j) == j + 2 * Cardinality({k \in 1..j : RuneBytes(s[k]) = 3})

\* len(s) of a Go string
ByteLen(s) == BytesUpTo(s, Len(s))

Min(S) == CHOOSE x \in S : \A y \in S : x <= y

From(s, i) == SubSeq(s, i, Len(s))

MatchAt(s, i, p) == i >= 1 /\ i + Len(p) - 1 <= Len(s) /\ SubSeq(s, i, i + Len(p) - 1) = p

HasPrefix(s, p) == MatchAt(s, 1, p)

HasSuffix(s, p) == Len(p) <= Len(s) /\ MatchAt(s, Len(s) - Len(p) + 1, p)

\* strings.Index: position of the first occurrence, 0 when there is none
Index(s, p) ==
    LET First(hits) == IF hits = {} THEN 0 ELSE Min(hits)
    IN  First({i \in 1..(Len(s) + 1) : MatchAt(s, i, p)})

Contains(s, p) == Index(s, p) # 0

RECURSIVE ReplaceAll(_, _, _)
ReplaceAll(s, old, new) ==
    LET Cut(i) ==
            IF i = 0 \/ old = <<>> THEN s
            ELSE SubSeq(s, 1, i - 1) \o new \o ReplaceAll(From(s, i + Len(old)), old, new)
    IN  Cut(Index(s, old))

RECURSIVE Concat(_)
Concat(ss) == IF ss = <<>> THEN <<>> ELSE Head(ss) \o Concat(Tail(ss))

DigitChars == <<"0", "1", "2", "3", "4", "5", "6", "7", "8", "9">>

\* fmt's %d
RECURSIVE Itoa(_)
Itoa(n) ==
    IF n < 0 THEN <<"-">> \o Itoa(0 - n)
    ELSE IF n < 10 THEN <<DigitChars[n + 1]>>
    ELSE Itoa(n \div 10) \o Itoa(n % 10)

(***************************************************************************)
(* models.go: the citation patterns                                        *)
(***************************************************************************)
Turn == <<"t", "u", "r", "n">>
Search == <<"s", "e", "a", "r", "c", "h">>

\* the first position at or after i that holds no digit
RECURSIVE DigitsEnd(_, _)
DigitsEnd(s, i) ==
    IF i <= Len(s) /\ s[i] \in Digits THEN DigitsEnd(s, i + 1) ELSE i

\* searchRefPattern anchored at i: the position of the closing bracket of the
\* token that starts at i, 0 when none starts there
searchRefPattern(s, i) ==
    LET Closing(d1, d2) == IF d2 > d1 + 6 /\ d2 <= Len(s) /\ s[d2] = RB THEN d2 ELSE 0
        AfterTurn(d1) ==
            IF d1 = i + 5 \/ ~MatchAt(s, d1, Search) THEN 0
            ELSE Closing(d1, DigitsEnd(s, d1 + 6))
    IN  IF ~(i <= Len(s) /\ s[i] = LB /\ MatchAt(s, i + 1, Turn)) THEN 0
        ELSE AfterTurn(DigitsEnd(s, i + 5))

\* the nested optional groups of searchRefPrefixPattern, after the bracket:
\* s is what follows LB up to the end of the text
PrefixTail(s) ==
    LET AfterDigits(rest) ==
            IF Len(rest) <= 6 THEN rest = SubSeq(Search, 1, Len(rest))
            ELSE /\ SubSeq(rest, 1, 6) = Search
                 /\ DigitsEnd(rest, 7) = Len(rest) + 1
        AfterTurn(d1) == d1 > 5 /\ AfterDigits(From(s, d1))
    IN  IF Len(s) <= 4 THEN s = SubSeq(Turn, 1, Len(s))
        ELSE SubSeq(s, 1, 4) = Turn /\ AfterTurn(DigitsEnd(s, 5))

\* searchRefPrefixPattern on the part of s that starts at j, when s[j] is
\* the bracket: the pattern is anchored at the end of the text only
searchRefPrefixPattern(s, j) == s[j] = LB /\ PrefixTail(From(s, j + 1))

(***************************************************************************)
(* models.go: SearchRefFilter                                              *)
(***************************************************************************)
NoResults == [k \in {} |-> k]

NewSearchRefFilter == [buffer |-> <<>>, searchResults |-> NoResults]

SearchResult(title, url, index, refID) ==
    [Title |-> title, URL |-> url, Index |-> index, RefID |-> refID]

\* AddSearchResults that keeps the record a RefID already has
RECURSIVE AddSearchResultsKeepFirst(_, _)
AddSearchResultsKeepFirst(f, results) ==
    IF results = <<>> THEN f
    ELSE LET Put(r) == [k \in DOMAIN f.searchResults \cup {r.RefID} |->
                            IF k \in DOMAIN f.searchResults THEN f.searchResults[k] ELSE r]
         IN  AddSearchResultsKeepFirst([f EXCEPT !.searchResults = Put(Head(results))],
                                       Tail(results))

\* results is the decoded slice, in order; a later record replaces an earlier
\* one with the same RefID
RECURSIVE AddSearchResults(_, _)
AddSearchResults(f, results) ==
    IF results = <<>> THEN f
    ELSE LET Put(r) == [k \in DOMAIN f.searchResults \cup {r.RefID} |->
                            IF k = r.RefID THEN r ELSE f.searchResults[k]]
         IN  AddSearchResults([f EXCEPT !.searchResults = Put(Head(results))],
                              Tail(results))

\* fmt.Sprintf(`[\[%d\]](%s)`, result.Index, result.URL)
InlineLink(r) ==
    <<"[", "\\", "[">> \o Itoa(r.Index) \o <<"\\", "]", "]", "(">> \o r.URL \o <<")">>

\* ReplaceMatch with the brackets left on the identifier
ReplaceMatchWithBrackets(match, searchResults) ==
    IF match \in DOMAIN searchResults THEN InlineLink(searchResults[match]) ELSE <<>>

\* the callback of ReplaceAllStringFunc: the identifier is the match without
\* its first and last rune
ReplaceMatch(match, searchResults) ==
    LET Lookup(refID) ==
            IF refID \in DOMAIN searchResults THEN InlineLink(searchResults[refID]) ELSE <<>>
    IN  Lookup(SubSeq(match, 2, Len(match) - 1))

\* searchRefPattern.ReplaceAllStringFunc: leftmost matches, left to right,
\* the replacement is not scanned again.  A match begins with the opening
\* bracket, so the text up to the next bracket is copied as it is.
RECURSIVE ReplaceAllStringFunc(_, _, _)
ReplaceAllStringFunc(s, i, searchResults) ==
    LET At(b, e) ==
            IF e # 0
            THEN ReplaceMatch(SubSeq(s, b, e), searchResults)
                     \o ReplaceAllStringFunc(s, e + 1, searchResults)
            ELSE <<s[b]>> \o ReplaceAllStringFunc(s, b + 1, searchResults)
        Copied(b) ==
            IF b > Len(s) THEN SubSeq(s, i, Len(s))
            ELSE SubSeq(s, i, b - 1) \o At(b, searchRefPattern(s, b))
        First(hits) ==
            IF hits = {} THEN Len(s) + 1 ELSE CHOOSE j \in hits : \A k \in hits : j <= k
    IN  IF i > Len(s) THEN <<>> ELSE Copied(First({j \in i..Len(s) : s[j] = LB}))

maxPrefixLen == 20

\* the loop of Process without its limit: every suffix of the text is tried
RECURSIVE PrefixLoopNoLimit(_, _, _)
PrefixLoopNoLimit(s, j, room) ==
    IF j = 0 THEN 0
    ELSE IF searchRefPrefixPattern(s, j) THEN j
    ELSE PrefixLoopNoLimit(s, j - 1, room)

\* the loop of Process over i = 1..maxPrefixLen, suffix = content[len-i:]:
\* the start of the first suffix the prefix pattern matches, 0 when there is
\* none.  The pattern begins with the bracket and is not anchored at the
\* start, so a suffix that begins inside a character, or with any other
\* character, matches only if a shorter suffix does: the walk goes back one
\* character at a time, room being the bytes i may still grow by.
RECURSIVE PrefixLoop(_, _, _)
PrefixLoop(s, j, room) ==
    IF j = 0 \/ RuneBytes(s[j]) > room THEN 0
    ELSE IF searchRefPrefixPattern(s, j) THEN j
    ELSE PrefixLoop(s, j - 1, room - RuneBytes(s[j]))

\* Process: the filter after the call and the text returned
SearchRefFilterProcess(f, content) ==
    LET cleared == [f EXCEPT !.buffer = <<>>]
        limit(n) == IF n < maxPrefixLen THEN n ELSE maxPrefixLen
        Held(c1, j) ==
            IF c1 = <<>> THEN [f |-> cleared, out |-> <<>>]
            ELSE IF j # 0
            THEN [f |-> [f EXCEPT !.buffer = From(c1, j)], out |-> SubSeq(c1, 1, j - 1)]
            ELSE [f |-> cleared, out |-> c1]
        Replaced(c1) == Held(c1, PrefixLoop(c1, Len(c1), limit(ByteLen(c1))))
        Joined(c0) ==
            IF c0 = <<>> THEN [f |-> cleared, out |-> <<>>]
            ELSE Replaced(ReplaceAllStringFunc(c0, 1, f.searchResults))
    IN  Joined(f.buffer \o content)

\* Flush: the filter after the call and the text returned
SearchRefFilterFlush(f) ==
    [f |-> [f EXCEPT !.buffer = <<>>],
     out |-> IF f.buffer = <<>> THEN <<>>
             ELSE ReplaceAllStringFunc(f.buffer, 1, f.searchResults)]

\* escapeMarkdownTitle
escapeMarkdownTitle(title) ==
    ReplaceAll(ReplaceAll(ReplaceAll(title, <<"\\">>, <<"\\", "\\">>),
                          <<"[">>, <<"\\", "[">>),
               <<"]">>, <<"\\", "]">>)

\* SortInner comparing the wrong way round: the larger Index is moved forward
RECURSIVE SortInnerDescending(_, _, _)
SortInnerDescending(r, i, j) ==
    IF j > Len(r) THEN r
    ELSE IF r[i].Index < r[j].Index
         THEN SortInnerDescending([r EXCEPT ![i] = r[j], ![j] = r[i]], i, j + 1)
         ELSE SortInnerDescending(r, i, j + 1)

\* the two nested loops of GetSearchResultsMarkdown that order results by
\* Index: results[i] is swapped with every later results[j] that is smaller
RECURSIVE SortInner(_, _, _)
SortInner(r, i, j) ==
    IF j > Len(r) THEN r
    ELSE IF r[i].Index > r[j].Index
         THEN SortInner([r EXCEPT ![i] = r[j], ![j] = r[i]], i, j + 1)
         ELSE SortInner(r, i, j + 1)

RECURSIVE SortOuter(_, _)
SortOuter(r, i) == IF i >= Len(r) THEN r ELSE SortOuter(SortInner(r, i, i + 1), i + 1)

\* the orders in which ranging over the map may give its records: Go leaves
\* the iteration order of a map unspecified
RECURSIVE MapOrders(_)
MapOrders(m) ==
    IF DOMAIN m = {} THEN {<<>>}
    ELSE UNION {{<<m[k]>> \o rest : rest \in MapOrders([x \in DOMAIN m \ {k} |-> m[x]])} :
                    k \in DOMAIN m}

\* fmt.Sprintf("[\\[%d\\] %s](%s)\n", r.Index, escapedTitle, r.URL)
SourceLine(r) ==
    <<"[", "\\", "[">> \o Itoa(r.Index) \o <<"\\", "]", " ">> \o escapeMarkdownTitle(r.Title)
        \o <<"]", "(">> \o r.URL \o <<")", "\n">>

RECURSIVE SourceLines(_)
SourceLines(rs) == IF rs = <<>> THEN <<>> ELSE SourceLine(Head(rs)) \o SourceLines(Tail(rs))

\* GetSearchResultsMarkdown: the texts it may return, one for each order the
\* map is ranged over (they differ only when two records share an Index)
GetSearchResultsMarkdown(f) ==
    IF DOMAIN f.searchResults = {} THEN {<<>>}
    ELSE {SourceLines(SortOuter(rs, 1)) \o <<"\n">> : rs \in MapOrders(f.searchResults)}

(***************************************************************************)
(* encoding/json, as far as the upstream payloads need it: strings with    *)
(* the escapes \" \\ \/ \n \t \r, integers, true, false, null, arrays and  *)
(* objects.  A decoded value is a record tagged by t.                      *)
(***************************************************************************)
Ws == {" ", "\n", "\t", "\r"}

RECURSIVE SkipWs(_, _)
SkipWs(s, i) == IF i <= Len(s) /\ s[i] \in Ws THEN SkipWs(s, i + 1) ELSE i

JsonFail == [ok |-> FALSE, next |-> 0, val |-> [t |-> "none"]]

JsonOk(n, v) == [ok |-> TRUE, next |-> n, val |-> v]

EscapeChars == {"\"", "\\", "/", "n", "t", "r"}

Unescape(c) == IF c = "n" THEN "\n" ELSE IF c = "t" THEN "\t" ELSE IF c = "r" THEN "\r" ELSE c

\* the body of a string literal, i being the position after the opening quote
RECURSIVE JsonStringBody(_, _, _)
JsonStringBody(s, i, acc) ==
    IF i > Len(s) \/ s[i] \in {"\n", "\t", "\r"} THEN JsonFail
    ELSE IF s[i] = "\"" THEN JsonOk(i + 1, [t |-> "str", s |-> acc])
    ELSE IF s[i] = "\\"
         THEN IF i + 1 <= Len(s) /\ s[i + 1] \in EscapeChars
              THEN JsonStringBody(s, i + 2, Append(acc, Unescape(s[i + 1])))
              ELSE JsonFail
    ELSE JsonStringBody(s, i + 1, Append(acc, s[i]))

DigitValue(c) == CHOOSE n \in 0..9 : DigitChars[n + 1] = c

RECURSIVE Atoi(_, _, _)
Atoi(s, i, j) == IF j < i THEN 0 ELSE 10 * Atoi(s, i, j - 1) + DigitValue(s[j])

JsonNumber(s, i) ==
    LET Signed(d, n) == IF d = i THEN n ELSE 0 - n
        Number(d, e) ==
            IF e = d \/ (e <= Len(s) /\ s[e] \in {".", "e", "E"}) THEN JsonFail
            ELSE JsonOk(e, [t |-> "num", n |-> Signed(d, Atoi(s, d, e - 1))])
        AfterSign(d) == Number(d, DigitsEnd(s, d))
    IN  AfterSign(IF s[i] = "-" THEN i + 1 ELSE i)

RECURSIVE JsonValue(_, _)
RECURSIVE JsonElements(_, _, _)
RECURSIVE JsonMembers(_, _, _)

JsonValue(s, i0) ==
    LET Array(i, j) ==
            IF j <= Len(s) /\ s[j] = "]" THEN JsonOk(j + 1, [t |-> "arr", a |-> <<>>])
            ELSE JsonElements(s, i + 1, <<>>)
        Object(i, j) ==
            IF j <= Len(s) /\ s[j] = "}" THEN JsonOk(j + 1, [t |-> "obj", o |-> <<>>])
            ELSE JsonMembers(s, i + 1, <<>>)
        At(i) ==
            IF i > Len(s) THEN JsonFail
            ELSE IF s[i] = "\"" THEN JsonStringBody(s, i + 1, <<>>)
            ELSE IF s[i] \in Digits \cup {"-"} THEN JsonNumber(s, i)
            ELSE IF s[i] = "[" THEN Array(i, SkipWs(s, i + 1))
            ELSE IF s[i] = "{" THEN Object(i, SkipWs(s, i + 1))
            ELSE IF MatchAt(s, i, <<"n", "u", "l", "l">>) THEN JsonOk(i + 4, [t |-> "null"])
            ELSE IF MatchAt(s, i, <<"t", "r", "u", "e">>) THEN JsonOk(i + 4, [t |-> "bool"])
            ELSE IF MatchAt(s, i, <<"f", "a", "l", "s", "e">>) THEN JsonOk(i + 5, [t |-> "bool"])
            ELSE JsonFail
    IN  At(SkipWs(s, i0))

JsonElements(s, i, acc) ==
    LET After(v, j) ==
            IF ~v.ok \/ j > Len(s) THEN JsonFail
            ELSE IF s[j] = "," THEN JsonElements(s, j + 1, Append(acc, v.val))
            ELSE IF s[j] = "]" THEN JsonOk(j + 1, [t |-> "arr", a |-> Append(acc, v.val)])
            ELSE JsonFail
        Element(v) == After(v, SkipWs(s, v.next))
    IN  Element(JsonValue(s, i))

JsonMembers(s, i, acc) ==
    LET After(member, ok, j) ==
            IF ~ok \/ j > Len(s) THEN JsonFail
            ELSE IF s[j] = "," THEN JsonMembers(s, j + 1, Append(acc, member))
            ELSE IF s[j] = "}" THEN JsonOk(j + 1, [t |-> "obj", o |-> Append(acc, member)])
            ELSE JsonFail
        Value(k, v) == After([k |-> k.val.s, v |-> v.val], v.ok, SkipWs(s, v.next))
        Colon(k, c) ==
            Value(k, IF k.ok /\ c <= Len(s) /\ s[c] = ":" THEN JsonValue(s, c + 1)
                     ELSE JsonFail)
        Key(k) == Colon(k, SkipWs(s, k.next))
        Quote(q) ==
            Key(IF q <= Len(s) /\ s[q] = "\"" THEN JsonStringBody(s, q + 1, <<>>)
                ELSE JsonFail)
    IN  Quote(SkipWs(s, i))

\* json.Unmarshal's reading of the whole text: one value and nothing after it
JsonDecode(s) ==
    LET Whole(v) == IF v.ok /\ SkipWs(s, v.next) = Len(s) + 1 THEN v ELSE JsonFail
    IN  Whole(JsonValue(s, 1))

\* the value of the last member of object o named key, [t |-> "none"] if absent
RECURSIVE Member(_, _)
Member(o, key) ==
    IF o = <<>> THEN [t |-> "none"]
    ELSE IF o[Len(o)].k = key THEN o[Len(o)].v
    ELSE Member(SubSeq(o, 1, Len(o) - 1), key)

(***************************************************************************)
(* models.go: embedded blocks                                              *)
(***************************************************************************)
QuotedSearchResult ==
    <<"\"", "s", "e", "a", "r", "c", "h", "_", "r", "e", "s", "u", "l", "t", "\"">>

SearchResultKey ==
    <<"\"", "s", "e", "a", "r", "c", "h", "_", "r", "e", "s", "u", "l", "t", "\"", ":">>

ResultKey ==
    <<"\"", "r", "e", "s", "u", "l", "t", "\"", ":">>

QuotedSearchImage ==
    <<"\"", "s", "e", "a", "r", "c", "h", "_", "i", "m", "a", "g", "e", "\"">>

QuotedMcp ==
    <<"\"", "m", "c", "p", "\"">>

McpServer ==
    <<"m", "c", "p", "-", "s", "e", "r", "v", "e", "r">>

GlmBlock ==
    <<"<", "g", "l", "m", "_", "b", "l", "o", "c", "k">>

IsSearchResultContent(editContent) == Contains(editContent, QuotedSearchResult)

\* the first position at or after i that holds c, Len(s) + 1 when none does
RECURSIVE Seek(_, _, _)
Seek(s, i, c) == IF i > Len(s) \/ s[i] = c THEN i ELSE Seek(s, i + 1, c)

\* the first position at or after i that holds one of marks, Len(s) + 1 when
\* none does
NextOf(s, i, marks) ==
    LET First(hits) == IF hits = {} THEN Len(s) + 1 ELSE Min(hits)
    IN  First({j \in i..Len(s) : s[j] \in marks})

\* the bracket count of ParseSearchResults from endIdx on: the position after
\* the bracket that closes the array, 0 when the text ends first.  Only the
\* two brackets change the count, so the scan goes from bracket to bracket.
RECURSIVE CloseOfArray(_, _, _)
CloseOfArray(s, endIdx, bracketCount) ==
    IF endIdx > Len(s) THEN 0
    ELSE IF s[endIdx] = "[" THEN CloseOfArray(s, endIdx + 1, bracketCount + 1)
    ELSE IF s[endIdx] = "]"
         THEN IF bracketCount - 1 = 0 THEN endIdx + 1
              ELSE CloseOfArray(s, endIdx + 1, bracketCount - 1)
    ELSE CloseOfArray(s, NextOf(s, endIdx, {"[", "]"}), bracketCount)

\* a string field of a decoded object: absent and null leave the zero value,
\* any other type is an UnmarshalTypeError.  Keys are matched as written (Go
\* also accepts a key that differs in case only).
StringField(o, key) ==
    LET Field(v) ==
            IF v.t = "str" THEN [ok |-> TRUE, val |-> v.s]
            ELSE [ok |-> v.t \in {"none", "null"}, val |-> <<>>]
    IN  Field(Member(o, key))

IntField(o, key) ==
    LET Field(v) ==
            IF v.t = "num" THEN [ok |-> TRUE, val |-> v.n]
            ELSE [ok |-> v.t \in {"none", "null"}, val |-> 0]
    IN  Field(Member(o, key))

KeyTitle ==
    <<"t", "i", "t", "l", "e">>
KeyUrl ==
    <<"u", "r", "l">>
KeyIndex ==
    <<"i", "n", "d", "e", "x">>
KeyRefId ==
    <<"r", "e", "f", "_", "i", "d">>

\* one element of the array decoded into the anonymous struct of rawResults
RawResult(v) ==
    IF v.t = "null" THEN [ok |-> TRUE, val |-> SearchResult(<<>>, <<>>, 0, <<>>)]
    ELSE IF v.t # "obj" THEN [ok |-> FALSE, val |-> SearchResult(<<>>, <<>>, 0, <<>>)]
    ELSE LET Fields(title, url, index, refID) ==
                 [ok |-> title.ok /\ url.ok /\ index.ok /\ refID.ok,
                  val |-> SearchResult(title.val, url.val, index.val, refID.val)]
         IN  Fields(StringField(v.o, KeyTitle), StringField(v.o, KeyUrl),
                    IntField(v.o, KeyIndex), StringField(v.o, KeyRefId))

\* json.Unmarshal([]byte(jsonStr), &rawResults): ok is err == nil
UnmarshalRawResults(jsonStr) ==
    LET Elements(rs) ==
            [ok |-> \A i \in 1..Len(rs) : rs[i].ok, val |-> [i \in 1..Len(rs) |-> rs[i].val]]
        Decoded(v) ==
            IF ~v.ok THEN [ok |-> FALSE, val |-> <<>>]
            ELSE IF v.val.t = "null" THEN [ok |-> TRUE, val |-> <<>>]
            ELSE IF v.val.t # "arr" THEN [ok |-> FALSE, val |-> <<>>]
            ELSE Elements([i \in 1..Len(v.val.a) |-> RawResult(v.val.a[i])])
    IN  Decoded(JsonDecode(jsonStr))

\* a parser that answers a text it cannot decode with one record without a
\* reference
ParseSearchResultsLenient(editContent) ==
    IF Contains(editContent, SearchResultKey)
    THEN <<SearchResult(<<"X">>, <<>>, 1, <<"r">>)>>
    ELSE <<>>

\* ParseSearchResults: the decoded records, <<>> for nil
ParseSearchResults(editContent) ==
    LET Decoded(raw) == IF raw.ok THEN raw.val ELSE <<>>
        Closed(startIdx, endIdx) ==
            IF endIdx = 0 THEN <<>>
            ELSE Decoded(UnmarshalRawResults(SubSeq(editContent, startIdx, endIdx - 1)))
        Opened(startIdx) ==
            IF startIdx > Len(editContent) THEN <<>>
            ELSE Closed(startIdx, CloseOfArray(editContent, startIdx, 0))
        Found(idx) ==
            IF idx = 0 THEN <<>>
            ELSE Opened(Seek(editContent, idx + Len(SearchResultKey), "["))
    IN  Found(Index(editContent, SearchResultKey))

IsSearchToolCall(editContent, phase) ==
    /\ phase = "tool_call"
    /\ Contains(editContent, QuotedMcp) \/ Contains(editContent, McpServer)

\* the scan of ParseImageSearchResults, which skips what lies inside quoted
\* strings and counts braces as well as brackets: the position after the
\* bracket that closes the array, 0 when the text ends first.  A character
\* that is no backslash, quote, bracket or brace changes none of the scan's
\* variables, so the scan goes from one such character to the next.
ScanMarks == {"\\", "\"", "[", "{", "]", "}"}

RECURSIVE CloseOfImageArray(_, _, _, _, _)
CloseOfImageArray(s, endIdx, bracketCount, inString, escapeNext) ==
    IF endIdx > Len(s) THEN (IF bracketCount = 0 THEN endIdx ELSE 0)
    ELSE IF escapeNext THEN CloseOfImageArray(s, endIdx + 1, bracketCount, inString, FALSE)
    ELSE IF s[endIdx] \notin ScanMarks
         THEN CloseOfImageArray(s, NextOf(s, endIdx, ScanMarks), bracketCount, inString, FALSE)
    ELSE IF s[endIdx] = "\\" THEN CloseOfImageArray(s, endIdx + 1, bracketCount, inString, TRUE)
    ELSE IF s[endIdx] = "\""
         THEN CloseOfImageArray(s, endIdx + 1, bracketCount, ~inString, FALSE)
    ELSE IF inString THEN CloseOfImageArray(s, endIdx + 1, bracketCount, inString, FALSE)
    ELSE IF s[endIdx] \in {"[", "{"}
         THEN CloseOfImageArray(s, endIdx + 1, bracketCount + 1, FALSE, FALSE)
    ELSE IF bracketCount - 1 = 0 /\ s[endIdx] = "]" THEN endIdx + 1
    ELSE CloseOfImageArray(s, endIdx + 1, bracketCount - 1, FALSE, FALSE)

\* strings.TrimSpace
RECURSIVE TrimSpace(_)
TrimSpace(s) ==
    IF s = <<>> THEN s
    ELSE IF s[1] \in Ws THEN TrimSpace(Tail(s))
    ELSE IF s[Len(s)] \in Ws THEN TrimSpace(SubSeq(s, 1, Len(s) - 1))
    ELSE s

LabelTitle ==
    <<"T", "i", "t", "l", "e", ":", " ">>
LabelLink ==
    <<"L", "i", "n", "k", ":", " ">>
LabelThumbnail ==
    <<"T", "h", "u", "m", "b", "n", "a", "i", "l", ":", " ">>

parseImageSearchText(text) ==
    LET TitleUpTo(titleRest, titleEnd) ==
            IF titleEnd # 0 THEN TrimSpace(SubSeq(titleRest, 1, titleEnd - 1)) ELSE <<>>
        TitleIn(titleRest) == TitleUpTo(titleRest, Index(titleRest, <<";">>))
        TitleAt(titleIdx) ==
            IF titleIdx = 0 THEN <<>> ELSE TitleIn(From(text, titleIdx + Len(LabelTitle)))
        LinkUpTo(linkRest, linkEnd) ==
            IF linkEnd # 0 THEN TrimSpace(SubSeq(linkRest, 1, linkEnd - 1))
            ELSE TrimSpace(linkRest)
        LinkIn(linkRest) == LinkUpTo(linkRest, Index(linkRest, <<";">>))
        LinkAt(linkIdx) ==
            IF linkIdx = 0 THEN <<>> ELSE LinkIn(From(text, linkIdx + Len(LabelLink)))
        ThumbnailAt(thumbnailIdx) ==
            IF thumbnailIdx = 0 THEN <<>>
            ELSE TrimSpace(From(text, thumbnailIdx + Len(LabelThumbnail)))
    IN  [Title |-> TitleAt(Index(text, LabelTitle)),
         Link |-> LinkAt(Index(text, LabelLink)),
         Thumbnail |-> ThumbnailAt(Index(text, LabelThumbnail))]

KeyType ==
    <<"t", "y", "p", "e">>
KeyText ==
    <<"t", "e", "x", "t">>
ValueText ==
    <<"t", "e", "x", "t">>

\* the loop of ParseImageSearchResults over the decoded items
RECURSIVE ImageResults(_)
ImageResults(items) ==
    IF items = <<>> THEN <<>>
    ELSE LET Kept(result) ==
                 IF result.Title # <<>> /\ result.Link # <<>> THEN <<result>> ELSE <<>>
             Typed(type, text) ==
                 IF type.t = "str" /\ text.t = "str" /\ type.s = ValueText
                 THEN Kept(parseImageSearchText(text.s)) ELSE <<>>
             Item(item) ==
                 IF item.t = "obj" THEN Typed(Member(item.o, KeyType), Member(item.o, KeyText))
                 ELSE <<>>
         IN  Item(Head(items)) \o ImageResults(Tail(items))

\* ParseImageSearchResults: the decoded records, <<>> for nil.  The array is
\* decoded into []map[string]interface{}: every element is an object or null
ParseImageSearchResults(editContent) ==
    LET Decoded(v) ==
            IF ~v.ok THEN <<>>
            ELSE IF v.val.t # "arr" THEN <<>>
            ELSE IF \E i \in 1..Len(v.val.a) : v.val.a[i].t \notin {"obj", "null"} THEN <<>>
            ELSE ImageResults(v.val.a)
        Closed(startIdx, endIdx) ==
            IF endIdx = 0 THEN <<>>
            ELSE Decoded(JsonDecode(SubSeq(editContent, startIdx, endIdx - 1)))
        Opened(startIdx) ==
            IF startIdx > Len(editContent) THEN <<>>
            ELSE Closed(startIdx, CloseOfImageArray(editContent, startIdx, 0, FALSE, FALSE))
        Found(idx) ==
            IF idx = 0 THEN <<>> ELSE Opened(Seek(editContent, idx + Len(ResultKey), "["))
    IN  Found(Index(editContent, ResultKey))

RECURSIVE ImageLines(_)
ImageLines(rs) ==
    IF rs = <<>> THEN <<>>
    ELSE <<"\n", "!", "[">>
             \o ReplaceAll(ReplaceAll(Head(rs).Title, <<"[">>, <<"\\", "[">>),
                           <<"]">>, <<"\\", "]">>)
             \o <<"]", "(">> \o Head(rs).Link \o <<")">> \o ImageLines(Tail(rs))

FormatImageSearchResults(results) ==
    IF results = <<>> THEN <<>> ELSE ImageLines(results) \o <<"\n">>

ExtractTextBeforeGlmBlock(editContent) ==
    LET Trimmed(text) ==
            IF HasSuffix(text, <<"\n">>) THEN SubSeq(text, 1, Len(text) - 1) ELSE text
        Found(idx) == IF idx = 0 THEN <<>> ELSE Trimmed(SubSeq(editContent, 1, idx - 1))
    IN  Found(Index(editContent, GlmBlock))

(***************************************************************************)
(* claude.go: upstream events and the thinking filter                      *)
(***************************************************************************)
\* UpstreamData.GetEditContent: an edit_content that is itself a JSON string
\* literal is unquoted
GetEditContent(editContent) ==
    LET Unquoted(v) == IF v.ok /\ v.val.t = "str" THEN v.val.s ELSE editContent
    IN  IF editContent # <<>> /\ editContent[1] = "\"" THEN Unquoted(JsonDecode(editContent))
        ELSE editContent

NewThinkingFilter ==
    [hasSeenFirstThinking |-> FALSE, buffer |-> <<>>, lastOutputChunk |-> <<>>,
     lastPhase |-> "", thinkingRoundCount |-> 0]

Marker == <<">", " ">>
LineMarker == <<"\n", ">", " ">>
DetailsEnd == <<"<", "/", "d", "e", "t", "a", "i", "l", "s", ">">>

\* the rest of ProcessThinking once the leading marker is dealt with
NormalizeThinking(f, deltaContent) ==
    LET Held(content) ==
            IF HasSuffix(content, <<"\n", ">">>)
            THEN [f |-> [f EXCEPT !.buffer = <<"\n", ">">>],
                  out |-> SubSeq(content, 1, Len(content) - 2)]
            ELSE IF HasSuffix(content, <<"\n">>)
            THEN [f |-> [f EXCEPT !.buffer = <<"\n">>],
                  out |-> SubSeq(content, 1, Len(content) - 1)]
            ELSE [f |-> [f EXCEPT !.buffer = <<>>], out |-> content]
    IN  Held(ReplaceAll(f.buffer \o deltaContent, LineMarker, <<"\n">>))

\* ProcessThinking: the filter after the call and the text returned
ProcessThinking(f, deltaContent) ==
    LET seen == [f EXCEPT !.hasSeenFirstThinking = TRUE]
        First(idx) ==
            IF idx # 0 THEN NormalizeThinking(seen, From(deltaContent, idx + 2))
            ELSE [f |-> seen, out |-> <<>>]
    IN  IF f.hasSeenFirstThinking THEN NormalizeThinking(f, deltaContent)
        ELSE First(Index(deltaContent, Marker))

ThinkingFilterFlush(f) == [f |-> [f EXCEPT !.buffer = <<>>], out |-> f.buffer]

\* ExtractCompleteThinking: the text returned, or a panic: the slice
\* editContent[startIdx:endIdx] is out of range when the marker lies behind
\* the closing tag
ExtractCompleteThinking(editContent) ==
    LET Slice(startIdx, endIdx) ==
            IF endIdx = 0 THEN [panic |-> FALSE, out |-> <<>>]
            ELSE IF startIdx > endIdx THEN [panic |-> TRUE, out |-> <<>>]
            ELSE [panic |-> FALSE,
                  out |-> ReplaceAll(SubSeq(editContent, startIdx, endIdx - 1),
                                     LineMarker, <<"\n">>)]
        Found(markerIdx) ==
            IF markerIdx = 0 THEN [panic |-> FALSE, out |-> <<>>]
            ELSE Slice(markerIdx + 2, Index(editContent, <<"\n">> \o DetailsEnd))
    IN  Found(Index(editContent, Marker))

ExtractIncrementalThinking(f, editContent) ==
    LET After(complete, idx) ==
            IF idx = 0 THEN complete
            ELSE [panic |-> FALSE, out |-> From(complete.out, idx + Len(f.lastOutputChunk))]
        Incremental(complete) ==
            IF complete.panic \/ complete.out = <<>> \/ f.lastOutputChunk = <<>>
            THEN complete
            ELSE After(complete, Index(complete.out, f.lastOutputChunk))
    IN  Incremental(ExtractCompleteThinking(editContent))

ResetForNewRound(f) == [f EXCEPT !.lastOutputChunk = <<>>, !.hasSeenFirstThinking = FALSE]

(***************************************************************************)
(* claude.go: handleStreamResponse (OpenAI, streaming)                     *)
(*                                                                         *)
(* A line of the upstream body is [kind, phase, delta, edit]: kind is      *)
(* "noise" (no "data: " prefix), "badjson" (a payload that does not        *)
(* decode), "sentinel" ([DONE]) or "event" (a decoded UpstreamData).       *)
(* A handler is a record of its locals, the events it has written (out)    *)
(* and pc: "scanning", "done", or "panicked" when the goroutine died.      *)
(***************************************************************************)
Event(phase, delta, edit) == [kind |-> "event", phase |-> phase, delta |-> delta, edit |-> edit]

\* the lines that end the scan loop: the sentinel and an event of phase done
Ends(u) == u.kind = "sentinel" \/ (u.kind = "event" /\ u.phase = "done")

\* a loop that skips only the lines without the "data: " prefix
SkippedNoiseOnly(u) == u.kind = "noise"

\* the lines the loop skips
Skipped(u) == u.kind \in {"noise", "badjson"}

NewStream ==
    [hasContent |-> FALSE,
     searchRefFilter |-> NewSearchRefFilter,
     thinkingFilter |-> NewThinkingFilter,
     pendingSourcesMarkdown |-> <<>>,
     pendingImageSearchMarkdown |-> <<>>,
     totalContentOutputLength |-> 0,
     out |-> <<>>,
     pc |-> "scanning"]

\* WriteChunk that joins the text to the last chunk when that is of the same kind
WriteChunkMerged(h, kind, text) ==
    IF h.out # <<>> /\ h.out[Len(h.out)].kind = kind
    THEN [h EXCEPT !.out[Len(h.out)].text = @ \o text, !.hasContent = TRUE]
    ELSE [h EXCEPT !.out = Append(@, [kind |-> kind, text |-> text]), !.hasContent = TRUE]

\* one chunk written and flushed; every chunk the loop writes sets hasContent
WriteChunk(h, kind, text) ==
    [h EXCEPT !.out = Append(@, [kind |-> kind, text |-> text]), !.hasContent = TRUE]

\* text passed through the handler's citation filter and written if any is left
ProcessAndWrite(h, kind, text) ==
    LET Written(h1, out) == IF out = <<>> THEN h1 ELSE WriteChunk(h1, kind, out)
        Processed(r) == Written([h EXCEPT !.searchRefFilter = r.f], r.out)
    IN  Processed(SearchRefFilterProcess(h.searchRefFilter, text))

\* the thinking filter on entering a thinking delta (lines 840-846)
EnterThinking(tf) ==
    LET isNewThinkingRound == tf.lastPhase # "" /\ tf.lastPhase # "thinking"
        Entered(t1) == [f |-> [t1 EXCEPT !.lastPhase = "thinking"], isNew |-> isNewThinkingRound]
    IN  Entered(IF isNewThinkingRound
                THEN [ResetForNewRound(tf) EXCEPT !.thinkingRoundCount = @ + 1]
                ELSE tf)

\* lines 839-877: a thinking delta
StreamThinking(h, u) ==
    LET Written(tf, reasoningContent) ==
            IF reasoningContent = <<>> THEN [h EXCEPT !.thinkingFilter = tf]
            ELSE ProcessAndWrite(
                     [h EXCEPT !.thinkingFilter =
                                   [tf EXCEPT !.lastOutputChunk = reasoningContent]],
                     "reasoning", reasoningContent)
        Processed(e, p) ==
            Written(p.f, IF e.isNew /\ p.f.thinkingRoundCount > 1 /\ p.out # <<>>
                         THEN <<"\n", "\n">> \o p.out ELSE p.out)
        Entered(e) == Processed(e, ProcessThinking(e.f, u.delta))
    IN  Entered(EnterThinking(h.thinkingFilter))

\* lines 884-890: a search-result block; the handlers after it, one for each
\* text GetSearchResultsMarkdown may return
StreamSearchResult(h, editContent) ==
    LET Pending(f) ==
            {[h EXCEPT !.searchRefFilter = f, !.pendingSourcesMarkdown = md] :
                 md \in GetSearchResultsMarkdown(f)}
        Parsed(results) ==
            IF results = <<>> THEN {h}
            ELSE Pending(AddSearchResults(h.searchRefFilter, results))
    IN  Parsed(ParseSearchResults(editContent))

\* lines 892-912 and 919-939: the text before an embedded block
StreamTextBeforeBlock(h, editContent) ==
    LET Written(textBeforeBlock) ==
            IF textBeforeBlock = <<>> THEN h ELSE ProcessAndWrite(h, "content", textBeforeBlock)
    IN  Written(ExtractTextBeforeGlmBlock(editContent))

\* lines 913-915
StreamImageResults(h, editContent) ==
    LET Pending(results) ==
            IF results = <<>> THEN h
            ELSE [h EXCEPT !.pendingImageSearchMarkdown = FormatImageSearchResults(results)]
    IN  Pending(ParseImageSearchResults(editContent))

\* lines 946-981: the pending bibliography and image list, written as content
StreamPending(h) ==
    LET Images(h1) ==
            IF h1.pendingImageSearchMarkdown = <<>> THEN h1
            ELSE [WriteChunk(h1, "content", h1.pendingImageSearchMarkdown)
                      EXCEPT !.pendingImageSearchMarkdown = <<>>]
    IN  Images(IF h.pendingSourcesMarkdown = <<>> THEN h
               ELSE [WriteChunk(h, "content", h.pendingSourcesMarkdown)
                         EXCEPT !.pendingSourcesMarkdown = <<>>])

\* lines 986-1006: what the thinking filter still holds, written as reasoning
StreamFlushThinking(h) ==
    LET Flushed(r) ==
            IF r.out = <<>> THEN h
            ELSE ProcessAndWrite(
                     [h EXCEPT !.thinkingFilter = [r.f EXCEPT !.lastOutputChunk = r.out]],
                     "reasoning", r.out)
    IN  Flushed(ThinkingFilterFlush(h.thinkingFilter))

\* lines 1008-1025: the bibliography as reasoning, when one is still pending
StreamSourcesAsReasoning(h) ==
    IF h.pendingSourcesMarkdown # <<>> /\ h.thinkingFilter.hasSeenFirstThinking
    THEN [WriteChunk(h, "reasoning", h.pendingSourcesMarkdown)
              EXCEPT !.pendingSourcesMarkdown = <<>>]
    ELSE h

\* the text after the closing tag of the reasoning block (lines 1033-1039)
AfterDetails(editContent) ==
    LET Trimmed(afterDetails) ==
            IF HasPrefix(afterDetails, <<"\n">>) THEN Tail(afterDetails) ELSE afterDetails
    IN  Trimmed(From(editContent, Index(editContent, DetailsEnd) + Len(DetailsEnd)))

\* lines 1055-1074: reasoning taken from a snapshot goes through Process and
\* Flush at once
StreamSnapshotReasoning(h, reasoningContent) ==
    LET Written(h1, out) == IF out = <<>> THEN h1 ELSE WriteChunk(h1, "reasoning", out)
        Flushed(r, fl) == Written([h EXCEPT !.searchRefFilter = fl.f], r.out \o fl.out)
        Processed(r) == Flushed(r, SearchRefFilterFlush(r.f))
    IN  IF reasoningContent = <<>> THEN h
        ELSE Processed(SearchRefFilterProcess(h.searchRefFilter, reasoningContent))

\* lines 1076-1104: the content of the event, isDelta telling an answer delta
StreamWriteContent(h, content, isDelta) ==
    LET Counted(h1, out) ==
            IF isDelta THEN [h1 EXCEPT !.totalContentOutputLength = @ + Len(out)] ELSE h1
        Written(h1, out) ==
            IF out = <<>> THEN h1 ELSE WriteChunk(Counted(h1, out), "content", out)
        Processed(r) == Written([h EXCEPT !.searchRefFilter = r.f], r.out)
    IN  IF content = <<>> THEN h
        ELSE Processed(SearchRefFilterProcess(h.searchRefFilter, content))

\* a snapshot diff that never cuts: the whole snapshot is written every time
SnapshotWhole(h, editContent) ==
    [pc |-> "scanning",
     h |-> [h EXCEPT !.totalContentOutputLength = Len(editContent)],
     content |-> editContent, isDelta |-> FALSE]

\* lines 1043-1053: the cumulative diff of an other/tool_call snapshot, in
\* runes: the handler and the content left for lines 1076-1104 to write
SnapshotSuffix(h, editContent) ==
    IF Len(editContent) > h.totalContentOutputLength
    THEN [pc |-> "scanning",
          h |-> [h EXCEPT !.totalContentOutputLength = Len(editContent)],
          content |-> From(editContent, h.totalContentOutputLength + 1),
          isDelta |-> FALSE]
    ELSE [pc |-> "scanning", h |-> h, content |-> editContent, isDelta |-> FALSE]

\* lines 1027-1104: the content and the reasoning the event carries
StreamContent(h, u, editContent) ==
    LET Snapshot(inc, content) ==
            IF inc.panic THEN [pc |-> "panicked"]
            ELSE [pc |-> "scanning",
                  h |-> StreamSnapshotReasoning(
                            [h EXCEPT !.totalContentOutputLength = Len(content)], inc.out),
                  content |-> content, isDelta |-> FALSE]
        \* what lines 1027-1074 leave for lines 1076-1104 to write
        ToWrite ==
            IF u.phase = "answer" /\ u.delta # <<>>
            THEN [pc |-> "scanning", h |-> h, content |-> u.delta, isDelta |-> TRUE]
            ELSE IF u.phase = "answer" /\ editContent # <<>>
            THEN IF ~Contains(editContent, DetailsEnd)
                 THEN [pc |-> "scanning", h |-> h, content |-> <<>>, isDelta |-> FALSE]
                 ELSE Snapshot(ExtractIncrementalThinking(h.thinkingFilter, editContent),
                               AfterDetails(editContent))
            ELSE IF u.phase \in {"other", "tool_call"} /\ editContent # <<>>
            THEN SnapshotSuffix(h, editContent)
            ELSE [pc |-> "scanning", h |-> h, content |-> <<>>, isDelta |-> FALSE]
        Write(w) ==
            IF w.pc = "panicked" THEN [h EXCEPT !.pc = "panicked"]
            ELSE StreamWriteContent(w.h, w.content, w.isDelta)
    IN  Write(ToWrite)

\* lines 879-1104: an event that is no thinking delta
StreamOther(h, u) ==
    LET Dispatch(h0, editContent) ==
            IF editContent # <<>> /\ IsSearchResultContent(editContent)
            THEN StreamSearchResult(h0, editContent)
            ELSE IF editContent # <<>> /\ Contains(editContent, QuotedSearchImage)
            THEN {StreamImageResults(StreamTextBeforeBlock(h0, editContent), editContent)}
            ELSE IF editContent # <<>> /\ Contains(editContent, QuotedMcp)
            THEN {StreamTextBeforeBlock(h0, editContent)}
            ELSE IF editContent # <<>> /\ IsSearchToolCall(editContent, u.phase)
            THEN {h0}
            ELSE {StreamContent(
                      StreamSourcesAsReasoning(StreamFlushThinking(StreamPending(h0))),
                      u, editContent)}
    IN  Dispatch(IF u.phase # "" THEN [h EXCEPT !.thinkingFilter.lastPhase = u.phase] ELSE h,
                 GetEditContent(u.edit))

\* one pass of the scan loop (lines 817-1105) over a line that does not end it:
\* the handlers it may leave
StreamStep(h, u) ==
    IF Skipped(u) THEN {h}
    ELSE IF u.phase = "thinking" /\ u.delta # <<>> THEN {StreamThinking(h, u)}
    ELSE StreamOther(h, u)

\* lines 1107-1149: after the loop
StreamFinish(h) ==
    LET Ended(h2) ==
            [h2 EXCEPT !.out = @ \o <<[kind |-> "stop", text |-> <<>>],
                                      [kind |-> "DONE", text |-> <<>>]>>,
                       !.pc = "done"]
        Written(h1, out) == Ended(IF out = <<>> THEN h1 ELSE WriteChunk(h1, "content", out))
        Flushed(r) == Written([h EXCEPT !.searchRefFilter = r.f], r.out)
    IN  Flushed(SearchRefFilterFlush(h.searchRefFilter))

(***************************************************************************)
(* claude.go: handleNonStreamResponse (OpenAI, one JSON object)            *)
(***************************************************************************)
NewNonStream ==
    [chunks |-> <<>>,
     reasoningChunks |-> <<>>,
     thinkingFilter |-> NewThinkingFilter,
     searchRefFilter |-> NewSearchRefFilter,
     hasThinking |-> FALSE,
     pendingSourcesMarkdown |-> <<>>,
     pendingImageSearchMarkdown |-> <<>>,
     out |-> <<>>,
     pc |-> "scanning"]

\* append, for a text that is not empty
AppendText(chunks, text) == IF text = <<>> THEN chunks ELSE Append(chunks, text)

\* lines 1183-1200: a thinking delta
NonStreamThinking(h, u) ==
    LET Processed(separated, p) ==
            [h EXCEPT !.hasThinking = TRUE,
                      !.thinkingFilter = IF p.out = <<>> THEN p.f
                                         ELSE [p.f EXCEPT !.lastOutputChunk = p.out],
                      !.reasoningChunks = AppendText(separated, p.out)]
        Entered(e) ==
            Processed(IF e.isNew /\ e.f.thinkingRoundCount > 1
                      THEN Append(h.reasoningChunks, <<"\n", "\n">>)
                      ELSE h.reasoningChunks,
                      ProcessThinking(e.f, u.delta))
    IN  Entered(EnterThinking(h.thinkingFilter))

\* lines 1207-1213
NonStreamSearchResult(h, editContent) ==
    LET Pending(f) ==
            {[h EXCEPT !.searchRefFilter = f, !.pendingSourcesMarkdown = md] :
                 md \in GetSearchResultsMarkdown(f)}
        Parsed(results) ==
            IF results = <<>> THEN {h}
            ELSE Pending(AddSearchResults(h.searchRefFilter, results))
    IN  Parsed(ParseSearchResults(editContent))

\* lines 1215-1218 and 1226-1229
NonStreamTextBeforeBlock(h, editContent) ==
    [h EXCEPT !.chunks = AppendText(@, ExtractTextBeforeGlmBlock(editContent))]

\* lines 1220-1222
NonStreamImageResults(h, editContent) ==
    LET Pending(results) ==
            IF results = <<>> THEN h
            ELSE [h EXCEPT !.pendingImageSearchMarkdown = FormatImageSearchResults(results)]
    IN  Pending(ParseImageSearchResults(editContent))

\* lines 1236-1247
NonStreamPending(h) ==
    LET Images(h1) ==
            IF h1.pendingImageSearchMarkdown = <<>> THEN h1
            ELSE [h1 EXCEPT !.chunks = Append(@, h1.pendingImageSearchMarkdown),
                            !.pendingImageSearchMarkdown = <<>>]
    IN  Images(IF h.pendingSourcesMarkdown = <<>> THEN h
               ELSE IF h.hasThinking
               THEN [h EXCEPT !.reasoningChunks = Append(@, h.pendingSourcesMarkdown),
                              !.pendingSourcesMarkdown = <<>>]
               ELSE [h EXCEPT !.chunks = Append(@, h.pendingSourcesMarkdown),
                              !.pendingSourcesMarkdown = <<>>])

\* lines 1249-1274
NonStreamContent(h, u, editContent) ==
    IF u.phase = "answer" /\ u.delta # <<>> THEN [h EXCEPT !.chunks = Append(@, u.delta)]
    ELSE IF u.phase = "answer" /\ editContent # <<>>
    THEN IF ~Contains(editContent, DetailsEnd) THEN h
         ELSE LET Snapshot(inc) ==
                      IF inc.panic THEN [h EXCEPT !.pc = "panicked"]
                      ELSE [h EXCEPT !.reasoningChunks = AppendText(@, inc.out),
                                     !.chunks = AppendText(@, AfterDetails(editContent))]
              IN  Snapshot(ExtractIncrementalThinking(h.thinkingFilter, editContent))
    ELSE IF u.phase \in {"other", "tool_call"} /\ editContent # <<>>
    THEN [h EXCEPT !.chunks = Append(@, editContent)]
    ELSE h

\* lines 1202-1274: an event that is no thinking delta
NonStreamOther(h, u) ==
    LET Dispatch(h0, editContent) ==
            IF editContent # <<>> /\ IsSearchResultContent(editContent)
            THEN NonStreamSearchResult(h0, editContent)
            ELSE IF editContent # <<>> /\ Contains(editContent, QuotedSearchImage)
            THEN {NonStreamImageResults(NonStreamTextBeforeBlock(h0, editContent), editContent)}
            ELSE IF editContent # <<>> /\ Contains(editContent, QuotedMcp)
            THEN {NonStreamTextBeforeBlock(h0, editContent)}
            ELSE IF editContent # <<>> /\ IsSearchToolCall(editContent, u.phase)
            THEN {h0}
            ELSE {NonStreamContent(NonStreamPending(h0), u, editContent)}
    IN  Dispatch(IF u.phase # "" THEN [h EXCEPT !.thinkingFilter.lastPhase = u.phase] ELSE h,
                 GetEditContent(u.edit))

\* one pass of the scan loop (lines 1163-1275) over a line that does not end it
NonStreamStep(h, u) ==
    IF Skipped(u) THEN {h}
    ELSE IF u.phase = "thinking" /\ u.delta # <<>> THEN {NonStreamThinking(h, u)}
    ELSE NonStreamOther(h, u)

\* NonStreamFinish without the Flush between the two texts: what the filter
\* holds back of the content is met by the reasoning
NonStreamFinishNoFlush(h) ==
    LET Respond(f, content, reasoning) ==
            [h EXCEPT !.searchRefFilter = f,
                      !.out = <<[content |-> content, reasoning_content |-> reasoning]>>,
                      !.pc = "done"]
        ReasoningFlushed(content, r, rf) == Respond(rf.f, content, r.out \o rf.out)
        ReasoningProcessed(content, r) == ReasoningFlushed(content, r, SearchRefFilterFlush(r.f))
        ContentProcessed(c) ==
            ReasoningProcessed(c.out, SearchRefFilterProcess(c.f, Concat(h.reasoningChunks)))
    IN  ContentProcessed(SearchRefFilterProcess(h.searchRefFilter, Concat(h.chunks)))

\* lines 1277-1304: the two texts go through the same filter, one after the
\* other, each with its own Process and Flush
NonStreamFinish(h) ==
    LET Respond(f, content, reasoning) ==
            [h EXCEPT !.searchRefFilter = f,
                      !.out = <<[content |-> content, reasoning_content |-> reasoning]>>,
                      !.pc = "done"]
        ReasoningFlushed(content, r, rf) == Respond(rf.f, content, r.out \o rf.out)
        ReasoningProcessed(content, r) == ReasoningFlushed(content, r, SearchRefFilterFlush(r.f))
        ContentFlushed(c, cf) ==
            ReasoningProcessed(c.out \o cf.out,
                               SearchRefFilterProcess(cf.f, Concat(h.reasoningChunks)))
        ContentProcessed(c) == ContentFlushed(c, SearchRefFilterFlush(c.f))
    IN  ContentProcessed(SearchRefFilterProcess(h.searchRefFilter, Concat(h.chunks)))

(***************************************************************************)
(* claude.go: handleClaudeStreamResponse and handleClaudeNonStreamResponse *)
(***************************************************************************)
NewClaudeStream ==
    [searchRefFilter |-> NewSearchRefFilter,
     thinkingFilter |-> NewThinkingFilter,
     pendingSourcesMarkdown |-> <<>>,
     out |-> <<>>,
     pc |-> "scanning"]

WriteEvent(h, type, text) == [h EXCEPT !.out = Append(@, [type |-> type, text |-> text])]

\* lines 235-261: the two events written before the first line is read
ClaudeStreamBegin(h) ==
    WriteEvent(WriteEvent(h, "message_start", <<>>), "content_block_start", <<>>)

\* lines 297-303 and 425-431, the same in both Claude handlers
ClaudeSearchResult(h, editContent) ==
    LET Pending(f) ==
            {[h EXCEPT !.searchRefFilter = f, !.pendingSourcesMarkdown = md] :
                 md \in GetSearchResultsMarkdown(f)}
        Parsed(results) ==
            IF results = <<>> THEN {h}
            ELSE Pending(AddSearchResults(h.searchRefFilter, results))
    IN  Parsed(ParseSearchResults(editContent))

\* lines 321-333 and 442-454: the content of the event, or a panic.  The
\* text returned by ExtractCompleteThinking is dropped.
ClaudeContent(u) ==
    IF u.phase = "answer" /\ u.delta # <<>> THEN [panic |-> FALSE, out |-> u.delta]
    ELSE IF u.phase = "answer" /\ u.edit # <<>>
    THEN IF ~Contains(u.edit, DetailsEnd) THEN [panic |-> FALSE, out |-> <<>>]
         ELSE LET After(idx) ==
                      IF idx = 0 THEN <<>> ELSE From(u.edit, idx + Len(DetailsEnd) + 1)
              IN  [panic |-> ExtractCompleteThinking(u.edit).panic,
                   out |-> After(Index(u.edit, DetailsEnd \o <<"\n">>))]
    ELSE IF u.phase \in {"other", "tool_call"} /\ u.edit # <<>>
    THEN [panic |-> FALSE, out |-> u.edit]
    ELSE [panic |-> FALSE, out |-> <<>>]

\* lines 309-351
ClaudeStreamWrite(h, u) ==
    LET Written(h2, out) ==
            IF out = <<>> THEN h2 ELSE WriteEvent(h2, "content_block_delta", out)
        Processed(h1, r) == Written([h1 EXCEPT !.searchRefFilter = r.f], r.out)
        Content(h1, c) ==
            IF c.panic THEN [h1 EXCEPT !.pc = "panicked"]
            ELSE IF c.out = <<>> THEN h1
            ELSE Processed(h1, SearchRefFilterProcess(h1.searchRefFilter, c.out))
    IN  Content(IF h.pendingSourcesMarkdown = <<>> THEN h
                ELSE [WriteEvent(h, "content_block_delta", h.pendingSourcesMarkdown)
                          EXCEPT !.pendingSourcesMarkdown = <<>>],
                ClaudeContent(u))

\* ClaudeStreamStep that writes what ProcessThinking returns into the text block
ClaudeStreamStepWithReasoning(h, u) ==
    LET Thought(p) ==
            IF p.out = <<>> THEN [h EXCEPT !.pendingSourcesMarkdown = <<>>, !.thinkingFilter = p.f]
            ELSE [WriteEvent(h, "content_block_delta", p.out)
                      EXCEPT !.pendingSourcesMarkdown = <<>>, !.thinkingFilter = p.f]
    IN  IF Skipped(u) THEN {h}
        ELSE IF u.phase = "thinking" /\ u.delta # <<>>
        THEN {Thought(ProcessThinking(h.thinkingFilter, u.delta))}
        ELSE IF u.edit # <<>> /\ IsSearchResultContent(u.edit) THEN ClaudeSearchResult(h, u.edit)
        ELSE IF u.edit # <<>> /\ IsSearchToolCall(u.edit, u.phase) THEN {h}
        ELSE {ClaudeStreamWrite(h, u)}

\* one pass of the scan loop (lines 269-352) over a line that does not end it
ClaudeStreamStep(h, u) ==
    IF Skipped(u) THEN {h}
    ELSE IF u.phase = "thinking" /\ u.delta # <<>>
    THEN {[h EXCEPT !.pendingSourcesMarkdown = <<>>,
                    !.thinkingFilter = ProcessThinking(h.thinkingFilter, u.delta).f]}
    ELSE IF u.edit # <<>> /\ IsSearchResultContent(u.edit) THEN ClaudeSearchResult(h, u.edit)
    ELSE IF u.edit # <<>> /\ IsSearchToolCall(u.edit, u.phase) THEN {h}
    ELSE {ClaudeStreamWrite(h, u)}

\* lines 354-389: after the loop
ClaudeStreamFinish(h) ==
    LET Ended(h2) ==
            [WriteEvent(WriteEvent(WriteEvent(h2, "content_block_stop", <<>>),
                                   "message_delta", <<>>),
                        "message_stop", <<>>)
                 EXCEPT !.pc = "done"]
        Written(h1, out) ==
            Ended(IF out = <<>> THEN h1 ELSE WriteEvent(h1, "content_block_delta", out))
        Flushed(r) == Written([h EXCEPT !.searchRefFilter = r.f], r.out)
    IN  Flushed(SearchRefFilterFlush(h.searchRefFilter))

NewClaudeNonStream ==
    [chunks |-> <<>>,
     thinkingFilter |-> NewThinkingFilter,
     searchRefFilter |-> NewSearchRefFilter,
     pendingSourcesMarkdown |-> <<>>,
     out |-> <<>>,
     pc |-> "scanning"]

\* lines 437-458
ClaudeNonStreamCollect(h, u) ==
    LET Content(h1, c) ==
            IF c.panic THEN [h1 EXCEPT !.pc = "panicked"]
            ELSE [h1 EXCEPT !.chunks = AppendText(@, c.out)]
    IN  Content(IF h.pendingSourcesMarkdown = <<>> THEN h
                ELSE [h EXCEPT !.chunks = Append(@, h.pendingSourcesMarkdown),
                               !.pendingSourcesMarkdown = <<>>],
                ClaudeContent(u))

\* one pass of the scan loop (lines 400-459) over a line that does not end it
ClaudeNonStreamStep(h, u) ==
    IF Skipped(u) THEN {h}
    ELSE IF u.phase = "thinking" /\ u.delta # <<>>
    THEN {[h EXCEPT !.thinkingFilter = ProcessThinking(h.thinkingFilter, u.delta).f]}
    ELSE IF u.edit # <<>> /\ IsSearchResultContent(u.edit) THEN ClaudeSearchResult(h, u.edit)
    ELSE IF u.edit # <<>> /\ IsSearchToolCall(u.edit, u.phase) THEN {h}
    ELSE {ClaudeNonStreamCollect(h, u)}

\* lines 461-480
ClaudeNonStreamFinish(h) ==
    LET Flushed(c, cf) ==
            [h EXCEPT !.searchRefFilter = cf.f,
                      !.out = <<[text |-> c.out \o cf.out]>>,
                      !.pc = "done"]
        Processed(c) == Flushed(c, SearchRefFilterFlush(c.f))
    IN  Processed(SearchRefFilterProcess(h.searchRefFilter, Concat(h.chunks)))

(***************************************************************************)
(* models.go: model names                                                  *)
(***************************************************************************)
\* BaseModelMapping, as the pairs of a name and the upstream model it stands for
BaseModelMapping ==
    {<<<<"G", "L", "M", "-", "4", ".", "5">>,
       <<"0", "7", "2", "7", "-", "3", "6", "0", "B", "-", "A", "P", "I">>>>,
     <<<<"G", "L", "M", "-", "4", ".", "6">>,
       <<"G", "L", "M", "-", "4", "-", "6", "-", "A", "P", "I", "-", "V", "1">>>>,
     <<<<"G", "L", "M", "-", "4", ".", "7">>,
       <<"g", "l", "m", "-", "4", ".", "7">>>>,
     <<<<"G", "L", "M", "-", "4", ".", "5", "-", "V">>,
       <<"g", "l", "m", "-", "4", ".", "5", "v">>>>,
     <<<<"G", "L", "M", "-", "4", ".", "6", "-", "V">>,
       <<"g", "l", "m", "-", "4", ".", "6", "v">>>>,
     <<<<"G", "L", "M", "-", "4", ".", "5", "-", "A", "i", "r">>,
       <<"0", "7", "2", "7", "-", "1", "0", "6", "B", "-", "A", "P", "I">>>>,
     <<<<"0", "8", "0", "8", "-", "3", "6", "0", "B", "-", "D", "R">>,
       <<"0", "8", "0", "8", "-", "3", "6", "0", "B", "-", "D", "R">>>>}

SuffixThinking == <<"-", "t", "h", "i", "n", "k", "i", "n", "g">>
SuffixSearch == <<"-", "s", "e", "a", "r", "c", "h">>

\* strings.TrimSuffix
TrimSuffix(s, suffix) ==
    IF HasSuffix(s, suffix) THEN SubSeq(s, 1, Len(s) - Len(suffix)) ELSE s

\* strings.TrimPrefix
TrimPrefix(s, prefix) ==
    IF HasPrefix(s, prefix) THEN From(s, Len(prefix) + 1) ELSE s

\* ParseModelName that takes one suffix off and stops
ParseModelNameOnce(model) ==
    IF HasSuffix(model, SuffixThinking)
    THEN [baseModel |-> TrimSuffix(model, SuffixThinking),
          enableThinking |-> TRUE, enableSearch |-> FALSE]
    ELSE IF HasSuffix(model, SuffixSearch)
    THEN [baseModel |-> TrimSuffix(model, SuffixSearch),
          enableThinking |-> FALSE, enableSearch |-> TRUE]
    ELSE [baseModel |-> model, enableThinking |-> FALSE, enableSearch |-> FALSE]

\* the loop of ParseModelName
RECURSIVE ParseModelLoop(_, _, _)
ParseModelLoop(baseModel, enableThinking, enableSearch) ==
    IF HasSuffix(baseModel, SuffixThinking)
    THEN ParseModelLoop(TrimSuffix(baseModel, SuffixThinking), TRUE, enableSearch)
    ELSE IF HasSuffix(baseModel, SuffixSearch)
    THEN ParseModelLoop(TrimSuffix(baseModel, SuffixSearch), enableThinking, TRUE)
    ELSE [baseModel |-> baseModel, enableThinking |-> enableThinking,
          enableSearch |-> enableSearch]

ParseModelName(model) == ParseModelLoop(model, FALSE, FALSE)

IsThinkingModel(model) == ParseModelName(model).enableThinking

IsSearchModel(model) == ParseModelName(model).enableSearch

GetTargetModel(model) ==
    LET Mapped(targets) == IF targets = {} THEN model ELSE CHOOSE t \in targets : TRUE
        Base(baseModel) == Mapped({p[2] : p \in {q \in BaseModelMapping : q[1] = baseModel}})
    IN  Base(ParseModelName(model).baseModel)

(***************************************************************************)
(* The citation filter fed one text in chunks                              *)
(***************************************************************************)
MaxPieces == 3

\* the building blocks of the texts: an opened token, its two possible ends,
\* a whole token nobody registered, a run of digits, plain text
PieceOpen == <<LB>> \o Turn \o <<"0">>
PieceEnd1 == Search \o <<"1", RB>>
PieceEnd2 == Search \o <<"2", RB>>
PieceToken2 == PieceOpen \o PieceEnd2
PieceZeros == <<"0", "0", "0", "0", "0", "0">>
PiecePlain == <<"x">>
Pieces == {PieceOpen, PieceEnd1, PieceEnd2, PieceToken2, PieceZeros, PiecePlain}

RECURSIVE TextsOf(_)
TextsOf(n) ==
    IF n = 0 THEN {<<>>}
    ELSE LET shorter == TextsOf(n - 1)
         IN  shorter \cup {t \o p : t \in shorter, p \in Pieces}

\* the registry of the harness: the token turn0search1 and the long token
\* turn0000000search1 are registered, turn0search2 is not
RefShort == Turn \o <<"0">> \o Search \o <<"1">>
RefLong == Turn \o <<"0">> \o PieceZeros \o Search \o <<"1">>
UrlE == <<"h", "t", "t", "p", ":", "/", "/", "e">>
UrlF == <<"h", "t", "t", "p", ":", "/", "/", "f">>
HarnessResults ==
    <<SearchResult(<<"X">>, UrlE, 1, RefShort), SearchResult(<<"Y">>, UrlF, 2, RefLong)>>

HarnessFilter == AddSearchResults(NewSearchRefFilter, HarnessResults)

\* a harness that is not part of the run
ThinkIdle == [text |-> <<>>, pos |-> 0, filter |-> NewThinkingFilter, emitted |-> <<>>, pc |-> "idle"]

ParseIdle == [value |-> <<>>, field |-> "", search |-> <<>>, image |-> <<>>, pc |-> "idle"]

NameIdle ==
    [base |-> <<>>, run |-> <<>>, parsed |-> ParseModelName(<<>>),
     again |-> ParseModelName(<<>>), target |-> <<>>, pc |-> "idle"]

\* no request has been received
ReqIdle ==
    [endpoint |-> "", method |-> "", authorization |-> <<>>, xApiKey |-> <<>>,
     body |-> [decodes |-> FALSE, stream |-> FALSE, model |-> <<>>],
     token |-> <<>>, model |-> <<>>, decoded |-> FALSE, calls |-> <<>>,
     upstream |-> [status |-> 0, text |-> "", lines |-> <<>>],
     status |-> 0, text |-> "", events |-> <<>>, pc |-> "idle"]

\* no two requests are being served
ConcIdle == [c \in {} |-> c]

PureIdle ==
    /\ think = ThinkIdle /\ parse = ParseIdle /\ name = NameIdle
    /\ req = ReqIdle /\ conc = ConcIdle

HandlersIdle ==
    /\ pool = {}
    /\ read = <<>>
    /\ ost = NewStream
    /\ ons = NewNonStream
    /\ cst = NewClaudeStream
    /\ cns = NewClaudeNonStream
    /\ hpc = "idle"

FilterInit ==
    /\ input \in TextsOf(MaxPieces)
    /\ pos = 0
    /\ filter = HarnessFilter
    /\ emitted = <<>>
    /\ fpc = "feeding"
    /\ HandlersIdle
    /\ PureIdle

\* one call of Process with the next k characters of the text
Feed(k) ==
    /\ fpc = "feeding"
    /\ pos + k <= Len(input)
    /\ LET r == SearchRefFilterProcess(filter, SubSeq(input, pos + 1, pos + k))
       IN  /\ filter' = r.f
           /\ emitted' = emitted \o r.out
    /\ pos' = pos + k
    /\ UNCHANGED <<input, fpc, pool, read, ost, ons, cst, cns, hpc, pureVars, req, conc>>

\* the call of Flush once the text is used up
FlushAtEnd ==
    /\ fpc = "feeding"
    /\ pos = Len(input)
    /\ LET r == SearchRefFilterFlush(filter)
       IN  /\ filter' = r.f
           /\ emitted' = emitted \o r.out
    /\ fpc' = "flushed"
    /\ UNCHANGED <<input, pos, pool, read, ost, ons, cst, cns, hpc, pureVars, req, conc>>

FilterNext ==
    \/ \E k \in 1..(MaxPieces * 14 + 14) : Feed(k)
    \/ FlushAtEnd

SpecFilter == FilterInit /\ [][FilterNext]_vars

\* what one Process of the whole text and a Flush give
WholeOutput(text) ==
    LET r == SearchRefFilterProcess(HarnessFilter, text)
    IN  r.out \o SearchRefFilterFlush(r.f).out

\* C1: however the text is cut into chunks, the Process results followed by
\* the Flush result are what Process of the whole text followed by Flush gives
C1_ChunkIndependence == fpc = "flushed" => emitted = WholeOutput(input)

ContainsToken(s) == \E i \in 1..Len(s) : searchRefPattern(s, i) # 0

\* C2: the text sent to the client holds no complete citation token whose
\* identifier is not registered
C2_NoLiteralToken ==
    fpc = "flushed" =>
        \A i \in 1..Len(emitted) :
            LET e == searchRefPattern(emitted, i)
            IN  e # 0 => SubSeq(emitted, i + 1, e - 1) \in DOMAIN HarnessFilter.searchResults

(***************************************************************************)
(* One upstream body read by the four handlers                             *)
(*                                                                         *)
(* The same lines are given to handleStreamResponse,                       *)
(* handleNonStreamResponse, handleClaudeStreamResponse and                 *)
(* handleClaudeNonStreamResponse, each working on its own locals, so that  *)
(* their outputs for one body can be compared.                             *)
(***************************************************************************)
MaxLines == 4

SearchBlockText ==
    <<"<", "g", "l", "m", "_", "b", "l", "o", "c", "k", " ", ">", "{", "\"", "s", "e",
      "a", "r", "c", "h", "_", "r", "e", "s", "u", "l", "t", "\"", ":", " ", "[", "{",
      "\"", "t", "i", "t", "l", "e", "\"", ":", "\"", "X", "\"", ",", "\"", "u", "r",
      "l", "\"", ":", "\"", "h", "t", "t", "p", ":", "/", "/", "e", "\"", ",", "\"",
      "i", "n", "d", "e", "x", "\"", ":", "1", ",", "\"", "r", "e", "f", "_", "i", "d",
      "\"", ":", "\"", "t", "u", "r", "n", "0", "s", "e", "a", "r", "c", "h", "1",
      "\"", "}", "]", "}", "<", "/", "g", "l", "m", "_", "b", "l", "o", "c", "k", ">">>

SearchBlockA1Text ==
    <<"<", "g", "l", "m", "_", "b", "l", "o", "c", "k", " ", ">", "{", "\"", "s", "e",
      "a", "r", "c", "h", "_", "r", "e", "s", "u", "l", "t", "\"", ":", " ", "[", "{",
      "\"", "t", "i", "t", "l", "e", "\"", ":", "\"", "X", "\"", ",", "\"", "u", "r",
      "l", "\"", ":", "\"", "h", "t", "t", "p", ":", "/", "/", "e", "\"", ",", "\"",
      "i", "n", "d", "e", "x", "\"", ":", "1", ",", "\"", "r", "e", "f", "_", "i", "d",
      "\"", ":", "\"", "a", "1", "\"", "}", "]", "}", "<", "/", "g", "l", "m", "_",
      "b", "l", "o", "c", "k", ">">>

SeeText ==
    <<"S", "e", "e", " ", LB, "t", "u", "r", "n">>

TailText ==
    <<"0", "s", "e", "a", "r", "c", "h", "1", RB, ".">>

SeeA1Text ==
    <<"S", "e", "e", " ", LB, "t", "u", "r", "n", "a", "s", "e", "a", "r", "c", "h",
      "1", RB>>

HiText ==
    <<"H", "i">>

ThinkQText ==
    <<">", " ", "q", "\n">>

ThinkWText ==
    <<">", " ", "w">>

DetailsText ==
    <<"<", "d", "e", "t", "a", "i", "l", "s", ">", "\n", ">", " ", "q", "\n", ">", " ",
      "w", "\n", "<", "/", "d", "e", "t", "a", "i", "l", "s", ">", "\n", "A", "n", "s">>

PanicText ==
    <<"<", "d", "e", "t", "a", "i", "l", "s", ">", "\n", "<", "/", "d", "e", "t", "a",
      "i", "l", "s", ">", "\n", ">", " ", "A">>

AbText ==
    <<"a", "b">>

AbcText ==
    <<"a", "b", "c">>

AbcdeText ==
    <<"a", "b", "c", "d", "e">>


SearchBlock == Event("tool_call", <<>>, SearchBlockText)
SearchBlockA1 == Event("tool_call", <<>>, SearchBlockA1Text)
AnsSee == Event("answer", SeeText, <<>>)
AnsTail == Event("answer", TailText, <<>>)
AnsSeeA1 == Event("answer", SeeA1Text, <<>>)
AnsHi == Event("answer", HiText, <<>>)
AnsEmpty == Event("answer", <<>>, <<>>)
ThinkQ == Event("thinking", ThinkQText, <<>>)
ThinkW == Event("thinking", ThinkWText, <<>>)
DetailsEdit == Event("answer", <<>>, DetailsText)
PanicEdit == Event("answer", <<>>, PanicText)
OtherAb == Event("other", <<>>, AbText)
OtherAbc == Event("other", <<>>, AbcText)
ToolAbcde == Event("tool_call", <<>>, AbcdeText)
NoiseLine == [kind |-> "noise", phase |-> "", delta |-> <<>>, edit |-> <<>>]
BadJsonLine == [kind |-> "badjson", phase |-> "", delta |-> <<>>, edit |-> <<>>]
Sentinel == [kind |-> "sentinel", phase |-> "", delta |-> <<>>, edit |-> <<>>]
DoneEvent == Event("done", <<>>, <<>>)
ThinkEmpty == Event("thinking", <<>>, <<>>)

\* a search-result block cut off inside its array, one whose array closes
\* inside an object, and an image block cut off inside its array
BrokenText == SubSeq(SearchBlockText, 1, 43)
BadArrayText == BrokenText \o <<"]", "}">>
BrokenImageText ==
    <<"<", "g", "l", "m", "_", "b", "l", "o", "c", "k", " ", ">", "{", "\"", "s", "e",
      "a", "r", "c", "h", "_", "i", "m", "a", "g", "e", "\"", ":", "{", "\"", "r", "e",
      "s", "u", "l", "t", "\"", ":", " ", "[", "{", "\"", "t", "y", "p", "e", "\"">>
BrokenBlock == Event("tool_call", <<>>, BrokenText)
BadArrayBlock == Event("tool_call", <<>>, BadArrayText)
BrokenImage == Event("tool_call", <<>>, BrokenImageText)

\* snapshots in which a text and a line end come before an embedded block: an
\* image-search block, a block that names "mcp", and a block of another tool
ImageAfterText ==
    <<"a", "b", "\n", "<", "g", "l", "m", "_", "b", "l", "o", "c", "k", " ", ">", "{",
      "\"", "s", "e", "a", "r", "c", "h", "_", "i", "m", "a", "g", "e", "\"", ":", "{",
      "\"", "r", "e", "s", "u", "l", "t", "\"", ":", " ", "[", "{", "\"", "t", "y", "p",
      "e", "\"", ":", "\"", "t", "e", "x", "t", "\"", ",", "\"", "t", "e", "x", "t", "\"",
      ":", "\"", "T", "i", "t", "l", "e", ":", " ", "X", ";", " ", "L", "i", "n", "k",
      ":", " ", "h", "t", "t", "p", ":", "/", "/", "e", "\"", "}", "]", "}", "}", "<",
      "/", "g", "l", "m", "_", "b", "l", "o", "c", "k", ">">>

McpAfterText ==
    <<"a", "b", "\n", "<", "g", "l", "m", "_", "b", "l", "o", "c", "k", " ", ">", "{",
      "\"", "m", "c", "p", "\"", ":", "1", "}", "<", "/", "g", "l", "m", "_", "b", "l",
      "o", "c", "k", ">">>

ToolAfterText ==
    <<"a", "b", "\n", "<", "g", "l", "m", "_", "b", "l", "o", "c", "k", " ", ">", "{",
      "\"", "t", "o", "o", "l", "\"", ":", "1", "}", "<", "/", "g", "l", "m", "_", "b",
      "l", "o", "c", "k", ">">>

ImageAfter == Event("tool_call", <<>>, ImageAfterText)
McpAfter == Event("other", <<>>, McpAfterText)
ToolAfter == Event("tool_call", <<>>, ToolAfterText)

\* the vocabularies an upstream body is written in
PoolCite == {SearchBlock, AnsSee, AnsTail, AnsHi, ThinkQ}
PoolExample == {SearchBlockA1, AnsSeeA1, AnsHi}
PoolDiff == {OtherAb, OtherAbc, ToolAbcde, AnsHi, DetailsEdit}
PoolThink == {ThinkQ, ThinkW, AnsHi, DetailsEdit, PanicEdit}
PoolNoise == {NoiseLine, BadJsonLine, AnsEmpty, AnsHi}
PoolRounds == {ThinkEmpty, ThinkW, AnsHi}
PoolHeld == {SearchBlock, AnsSee, ThinkQ, NoiseLine, BadJsonLine}
PoolBroken == {SearchBlock, BrokenBlock, BadArrayBlock, BrokenImage, AnsHi}
PoolBlocks == {ImageAfter, McpAfter, ToolAfter, AnsHi}
Pools ==
    {PoolCite, PoolExample, PoolDiff, PoolThink, PoolNoise, PoolRounds, PoolHeld, PoolBroken,
     PoolBlocks}

Init ==
    /\ pool \in Pools
    /\ read = <<>>
    /\ ost = NewStream
    /\ ons = NewNonStream
    /\ cst = NewClaudeStream
    /\ cns = NewClaudeNonStream
    /\ hpc = "start"
    /\ input = <<>>
    /\ pos = 0
    /\ filter = NewSearchRefFilter
    /\ emitted = <<>>
    /\ fpc = "idle"
    /\ PureIdle

Running(h) == h.pc = "scanning"

\* a handler that is still scanning moves to one of next, any other stays
Moves(h, next) == IF Running(h) THEN next ELSE {h}

\* the handlers start: the Claude stream writes its two opening events
Begin ==
    /\ hpc = "start"
    /\ hpc' = "scanning"
    /\ cst' = ClaudeStreamBegin(cst)
    /\ UNCHANGED <<input, pos, filter, emitted, fpc, pool, read, ost, ons, cns, pureVars, req, conc>>

\* scanner.Scan() gives a line that does not end the loop
Scan(u) ==
    /\ hpc = "scanning"
    /\ Len(read) < MaxLines
    /\ ~Ends(u)
    /\ Running(ost) \/ Running(ons) \/ Running(cst) \/ Running(cns)
    /\ read' = Append(read, u)
    /\ ost' \in Moves(ost, StreamStep(ost, u))
    /\ ons' \in Moves(ons, NonStreamStep(ons, u))
    /\ cst' \in Moves(cst, ClaudeStreamStep(cst, u))
    /\ cns' \in Moves(cns, ClaudeNonStreamStep(cns, u))
    /\ UNCHANGED <<input, pos, filter, emitted, fpc, pool, hpc, pureVars, req, conc>>

\* every handler that is still scanning leaves its loop
Close ==
    /\ hpc' = "closed"
    /\ ost' \in Moves(ost, {StreamFinish(ost)})
    /\ ons' \in Moves(ons, {NonStreamFinish(ons)})
    /\ cst' \in Moves(cst, {ClaudeStreamFinish(cst)})
    /\ cns' \in Moves(cns, {ClaudeNonStreamFinish(cns)})
    /\ UNCHANGED <<input, pos, filter, emitted, fpc, pool, pureVars, req, conc>>

\* scanner.Scan() gives the sentinel or an event of phase done
ScanLast(u) ==
    /\ hpc = "scanning"
    /\ Ends(u)
    /\ read' = Append(read, u)
    /\ Close

\* scanner.Scan() returns false: the body ended or could not be read
ScanFails ==
    /\ hpc = "scanning"
    /\ read' = read
    /\ Close

Next ==
    \/ Begin
    \/ \E u \in pool : Scan(u)
    \/ \E u \in {Sentinel, DoneEvent} : ScanLast(u)
    \/ ScanFails

Spec == Init /\ [][Next]_vars

(***************************************************************************)
(* What the clients of the four handlers receive                           *)
(***************************************************************************)
\* the texts of the chunks of one kind, joined in the order written
RECURSIVE TextOfKind(_, _)
TextOfKind(out, kind) ==
    IF out = <<>> THEN <<>>
    ELSE (IF Head(out).kind = kind THEN Head(out).text ELSE <<>>) \o TextOfKind(Tail(out), kind)

StreamContentText == TextOfKind(ost.out, "content")
StreamReasoningText == TextOfKind(ost.out, "reasoning")

\* s holds a and, somewhere after it, b
ContainsInOrder(s, a, b) ==
    LET After(i) == i # 0 /\ Contains(From(s, i + Len(a)), b)
    IN  After(Index(s, a))

\* the upstream sent block and, later, the lines one right after the other
Cited(block, lines) ==
    \E i \in 1..Len(read), j \in 1..Len(read) :
        /\ i < j
        /\ read[i] = block
        /\ j + Len(lines) - 1 <= Len(read)
        /\ SubSeq(read, j, j + Len(lines) - 1) = lines

\* the bibliography line of the record {X, http://e, 1} and the rewritten
\* answer texts
BibX ==
    <<"[", "\\", "[", "1", "\\", "]", " ", "X", "]", "(", "h", "t", "t", "p", ":", "/",
      "/", "e", ")", "\n", "\n">>
SeeLink ==
    <<"S", "e", "e", " ", "[", "\\", "[", "1", "\\", "]", "]", "(", "h", "t", "t", "p",
      ":", "/", "/", "e", ")">>
SeeLinkDot == SeeLink \o <<".">>

\* C3 as the spec states it: a search_result block registering one record with
\* ref_id R, followed by answer text holding a citation token whose identifier
\* is R, gives OpenAI content with the bibliography line and then the answer
\* text with the token rewritten to the inline link, both for ref_id
\* turn0search1 and for the spec's example, ref_id a1 and the token
\* LB turnasearch1 RB.
C3_SpecExample ==
    /\ Cited(SearchBlock, <<AnsSee, AnsTail>>)
           => ContainsInOrder(StreamContentText, BibX, SeeLinkDot)
    /\ Cited(SearchBlockA1, <<AnsSeeA1>>)
           => ContainsInOrder(StreamContentText, BibX, SeeLink)

\* C3, amended: the identifier of a token is its whole inner text turnNsearchM,
\* N and M decimal digits.  A block registering ref_id turn0search1, followed
\* by answer text with the token LB turn0search1 RB (here split over two
\* events), gives content with the bibliography line and then the answer text
\* with the inline link; the spec's example, ref_id a1 and LB turnasearch1 RB,
\* is no token: the text stays as it is.
C3_CitationByInnerText ==
    /\ Cited(SearchBlock, <<AnsSee, AnsTail>>)
           => ContainsInOrder(StreamContentText, BibX, SeeLinkDot)
    /\ Cited(SearchBlockA1, <<AnsSeeA1>>)
           => ContainsInOrder(StreamContentText, BibX, SeeA1Text)

C3_Witness ==
    /\ read = <<SearchBlock, AnsSee, AnsTail>>
    /\ StreamContentText = BibX \o SeeLinkDot

StopChunk == [kind |-> "stop", text |-> <<>>]
DoneLine == [kind |-> "DONE", text |-> <<>>]

\* C4: once the upstream body has ended, by a terminator, a done event, the
\* end of the body or a read failure, what the OpenAI stream has written ends
\* with one chunk of finish_reason stop and empty delta and then the [DONE]
\* line, and everything before them is a content or a reasoning chunk.
C4_StopThenDone ==
    hpc = "closed" =>
        /\ Len(ost.out) >= 2
        /\ ost.out[Len(ost.out) - 1] = StopChunk
        /\ ost.out[Len(ost.out)] = DoneLine
        /\ \A i \in 1..(Len(ost.out) - 2) : ost.out[i].kind \in {"content", "reasoning"}

\* an answer delta event whose text has no opening bracket of a citation token
PlainAnswerDelta(u) ==
    /\ u.kind = "event"
    /\ u.phase = "answer"
    /\ u.edit = <<>>
    /\ \A i \in 1..Len(u.delta) : u.delta[i] # LB

\* one content chunk for every line with a delta that is not empty
RECURSIVE ChunkPerDelta(_)
ChunkPerDelta(lines) ==
    IF lines = <<>> THEN <<>>
    ELSE (IF Head(lines).delta = <<>> THEN <<>>
          ELSE <<[kind |-> "content", text |-> Head(lines).delta]>>)
             \o ChunkPerDelta(Tail(lines))

\* C5: when the upstream sent answer deltas without an opening bracket and
\* then a done event, the OpenAI stream wrote one content chunk for every
\* delta that is not empty, in order, each with that delta's text, then the
\* stop chunk, then [DONE].
C5_OneChunkPerDelta ==
    (/\ hpc = "closed"
     /\ read # <<>>
     /\ read[Len(read)] = DoneEvent
     /\ \A i \in 1..(Len(read) - 1) : PlainAnswerDelta(read[i]))
        => ost.out = ChunkPerDelta(SubSeq(read, 1, Len(read) - 1)) \o <<StopChunk, DoneLine>>

C5_Witness ==
    /\ read = <<AnsTail, AnsHi, AnsHi, DoneEvent>>
    /\ ost.out = <<[kind |-> "content", text |-> TailText],
                   [kind |-> "content", text |-> HiText],
                   [kind |-> "content", text |-> HiText], StopChunk, DoneLine>>

\* the text of the Claude text block: the content_block_delta events joined
RECURSIVE DeltaText(_)
DeltaText(out) ==
    IF out = <<>> THEN <<>>
    ELSE (IF Head(out).type = "content_block_delta" THEN Head(out).text ELSE <<>>)
             \o DeltaText(Tail(out))

ClaudeStreamText == DeltaText(cst.out)
ClaudeNonStreamText == IF cns.out = <<>> THEN <<>> ELSE cns.out[1].text

\* C6: the Claude stream starts with message_start and content_block_start,
\* and once the upstream body has ended it has written, after these two, only
\* content_block_delta events with text, then content_block_stop,
\* message_delta and message_stop, one of each.
C6_EventOrder ==
    /\ hpc # "start" =>
           /\ Len(cst.out) >= 2
           /\ cst.out[1].type = "message_start"
           /\ cst.out[2].type = "content_block_start"
    /\ hpc = "closed" =>
           /\ Len(cst.out) >= 5
           /\ \A i \in 3..(Len(cst.out) - 3) :
                  cst.out[i].type = "content_block_delta" /\ cst.out[i].text # <<>>
           /\ cst.out[Len(cst.out) - 2].type = "content_block_stop"
           /\ cst.out[Len(cst.out) - 1].type = "message_delta"
           /\ cst.out[Len(cst.out)].type = "message_stop"

\* the characters only the reasoning of the upstream lines holds
ReasoningMarks == {"q", "w"}

\* the characters only the answer and other content of the upstream lines holds
AnswerMarks == {"H", "S", ".", "A", "a", LB}

HasMark(s, marks) == \E i \in 1..Len(s) : s[i] \in marks

AnsText == <<"A", "n", "s">>

NewContent == TextOfKind(SubSeq(ost'.out, Len(ost.out) + 1, Len(ost'.out)), "content")

\* the cumulative-diff rule for the line u the step reads
DiffStep(u) ==
    (read' = Append(read, u) /\ ost.pc = "scanning") =>
        IF Len(u.edit) > ost.totalContentOutputLength
        THEN /\ NewContent = From(u.edit, ost.totalContentOutputLength + 1)
             /\ ost'.totalContentOutputLength = Len(u.edit)
        ELSE /\ NewContent = u.edit
             /\ ost'.totalContentOutputLength = ost.totalContentOutputLength

\* C8: on an other/tool_call snapshot longer than the tracked length the
\* OpenAI stream writes the part beyond the tracked length and the tracked
\* length becomes the length of the snapshot; on any other snapshot it writes
\* the whole snapshot and leaves the tracked length alone.  From length 0 the
\* snapshots ab, abc, abcde are written as ab, c, de.
C8_CumulativeDiff ==
    /\ [][\A u \in {OtherAb, OtherAbc, ToolAbcde} : DiffStep(u)]_vars
    /\ []((hpc = "scanning" /\ read = <<OtherAb, OtherAbc, ToolAbcde>>) =>
              ost.out = <<[kind |-> "content", text |-> AbText],
                          [kind |-> "content", text |-> <<"c">>],
                          [kind |-> "content", text |-> <<"d", "e">>]>>)

C8_Witness ==
    /\ read = <<OtherAb, OtherAbc, ToolAbcde, OtherAb>>
    /\ ost.totalContentOutputLength = 5
    /\ StreamContentText = AbcdeText \o AbText

\* the lines read, without the line that ended the loop
Lines == IF read # <<>> /\ Ends(read[Len(read)]) THEN SubSeq(read, 1, Len(read) - 1) ELSE read

RECURSIVE DeltasOf(_)
DeltasOf(lines) == IF lines = <<>> THEN <<>> ELSE Head(lines).delta \o DeltasOf(Tail(lines))

NonStreamContentText == IF ons.out = <<>> THEN <<>> ELSE ons.out[1].content
NonStreamReasoningText == IF ons.out = <<>> THEN <<>> ELSE ons.out[1].reasoning_content

\* C9: the aggregated OpenAI response.  When only answer deltas were read and
\* their text holds no complete citation token, message.content is the deltas
\* joined in order; in every response message.content holds nothing of the
\* reasoning and message.reasoning_content nothing of the content.
C9_Aggregation ==
    ons.pc = "done" =>
        /\ (/\ \A i \in 1..Len(Lines) : Lines[i].phase = "answer" /\ Lines[i].edit = <<>>
            /\ ~ContainsToken(DeltasOf(Lines)))
               => NonStreamContentText = DeltasOf(Lines) /\ NonStreamReasoningText = <<>>
        /\ ~HasMark(NonStreamContentText, ReasoningMarks)
        /\ ~HasMark(NonStreamReasoningText, AnswerMarks)

C9_Witness ==
    /\ read = <<AnsSee, ThinkQ, AnsHi, DoneEvent>>
    /\ ons.out = <<[content |-> SeeText \o HiText, reasoning_content |-> <<"q">>]>>

\* C10: once both OpenAI handlers are through, the content chunks of the
\* stream joined are message.content of the aggregated response, and the
\* reasoning chunks joined are message.reasoning_content.
C10_StreamEqualsNonStream ==
    (ost.pc = "done" /\ ons.pc = "done") =>
        /\ StreamContentText = NonStreamContentText
        /\ StreamReasoningText = NonStreamReasoningText

(***************************************************************************)
(* The thinking filter given one reasoning text as thinking deltas         *)
(***************************************************************************)
MaxReasoning == 3

RECURSIVE ReasoningTexts(_)
ReasoningTexts(n) ==
    IF n = 0 THEN {<<>>}
    ELSE LET shorter == ReasoningTexts(n - 1)
         IN  shorter \cup {t \o <<c>> : t \in shorter, c \in {"q", "w", "\n"}}

\* the reasoning text as upstream marks it up: every line in a blockquote
MarkedUp(text) == Marker \o ReplaceAll(text, <<"\n">>, LineMarker)

DetailsStart == <<"<", "d", "e", "t", "a", "i", "l", "s", ">">>

\* the snapshot of an answer event that carries the same reasoning
DetailsBlock(text) ==
    DetailsStart \o <<"\n">> \o MarkedUp(text) \o <<"\n">> \o DetailsEnd \o <<"\n">>

ThinkInit ==
    /\ think \in {[ThinkIdle EXCEPT !.text = t, !.pc = "feeding"] :
                      t \in ReasoningTexts(MaxReasoning) \ {<<>>}}
    /\ input = <<>>
    /\ pos = 0
    /\ filter = NewSearchRefFilter
    /\ emitted = <<>>
    /\ fpc = "idle"
    /\ HandlersIdle
    /\ parse = ParseIdle
    /\ name = NameIdle
    /\ req = ReqIdle
    /\ conc = ConcIdle

\* one thinking delta: the next k characters of the marked-up text
ThinkFeed(k) ==
    /\ think.pc = "feeding"
    /\ think.pos + k <= Len(MarkedUp(think.text))
    /\ LET r == ProcessThinking(think.filter,
                                SubSeq(MarkedUp(think.text), think.pos + 1, think.pos + k))
       IN  think' = [think EXCEPT !.filter = r.f, !.emitted = @ \o r.out, !.pos = @ + k]
    /\ UNCHANGED <<input, pos, filter, emitted, fpc, pool, read, ost, ons, cst, cns, hpc, parse, name, req, conc>>

\* the Flush that follows the last delta
ThinkFlush ==
    /\ think.pc = "feeding"
    /\ think.pos = Len(MarkedUp(think.text))
    /\ LET r == ThinkingFilterFlush(think.filter)
       IN  think' = [think EXCEPT !.filter = r.f, !.emitted = @ \o r.out, !.pc = "flushed"]
    /\ UNCHANGED <<input, pos, filter, emitted, fpc, pool, read, ost, ons, cst, cns, hpc, parse, name, req, conc>>

ThinkNext ==
    \/ \E k \in 1..(3 * MaxReasoning + 2) : ThinkFeed(k)
    \/ ThinkFlush

SpecThinking == ThinkInit /\ [][ThinkNext]_vars

\* C11: the ProcessThinking results over the deltas of a marked-up reasoning
\* text, with what Flush returns after them, are what ExtractCompleteThinking
\* returns for the <details> block of the same text
C11_DeltaEqualsSnapshot ==
    think.pc = "flushed" =>
        think.emitted = ExtractCompleteThinking(DetailsBlock(think.text)).out

(***************************************************************************)
(* The two block parsers given a value that holds brackets and quotes      *)
(***************************************************************************)
MaxValue == 3

\* what a title or a link is made of: a letter, brackets, braces and an
\* escaped quote, which is two characters in the JSON text and one decoded
ValuePieces == {"a", "]", "[", "{", "}", "quote"}

RECURSIVE ValuesOf(_)
ValuesOf(n) ==
    IF n = 0 THEN {<<>>}
    ELSE LET shorter == ValuesOf(n - 1)
         IN  shorter \cup {v \o <<p>> : v \in shorter, p \in ValuePieces}

\* the value as it is written inside a JSON string
RECURSIVE RawValue(_)
RawValue(v) ==
    IF v = <<>> THEN <<>>
    ELSE (IF Head(v) = "quote" THEN <<"\\", "\"">> ELSE <<Head(v)>>) \o RawValue(Tail(v))

\* the value the JSON string stands for
RECURSIVE DecodedValue(_)
DecodedValue(v) ==
    IF v = <<>> THEN <<>>
    ELSE (IF Head(v) = "quote" THEN <<"\"">> ELSE <<Head(v)>>) \o DecodedValue(Tail(v))

SearchHead ==
    <<"<", "g", "l", "m", "_", "b", "l", "o", "c", "k", " ", ">", "{", "\"", "s", "e",
      "a", "r", "c", "h", "_", "r", "e", "s", "u", "l", "t", "\"", ":", " ", "[", "{",
      "\"", "t", "i", "t", "l", "e", "\"", ":", "\"">>
SearchMid ==
    <<"\"", ",", "\"", "u", "r", "l", "\"", ":", "\"">>
SearchTail ==
    <<"\"", ",", "\"", "i", "n", "d", "e", "x", "\"", ":", "1", ",", "\"", "r", "e",
      "f", "_", "i", "d", "\"", ":", "\"", "t", "u", "r", "n", "0", "s", "e", "a", "r",
      "c", "h", "1", "\"", "}", "]", "}", "<", "/", "g", "l", "m", "_", "b", "l", "o",
      "c", "k", ">">>
ImageHead ==
    <<"<", "g", "l", "m", "_", "b", "l", "o", "c", "k", " ", ">", "{", "\"", "s", "e",
      "a", "r", "c", "h", "_", "i", "m", "a", "g", "e", "\"", ":", "{", "\"", "r", "e",
      "s", "u", "l", "t", "\"", ":", " ", "[", "{", "\"", "t", "y", "p", "e", "\"",
      ":", "\"", "t", "e", "x", "t", "\"", ",", "\"", "t", "e", "x", "t", "\"", ":",
      "\"", "T", "i", "t", "l", "e", ":", " ">>
ImageMid ==
    <<";", " ", "L", "i", "n", "k", ":", " ">>
ImageTail ==
    <<"\"", "}", "]", "}", "}", "<", "/", "g", "l", "m", "_", "b", "l", "o", "c", "k", ">">>

\* the edit_content of a search-result block with one record
SearchBlockOf(title, url) == SearchHead \o title \o SearchMid \o url \o SearchTail

\* the edit_content of an image-search block with one item
ImageBlockOf(title, link) == ImageHead \o title \o ImageMid \o link \o ImageTail

\* the title and the link of the harness: the value is in one, "X" or the
\* plain link in the other
TitleOf(p, text) == IF p.field = "title" THEN text ELSE <<"X">>
LinkOf(p, text) == IF p.field = "url" THEN text ELSE UrlE

ParseInit ==
    /\ parse \in {[ParseIdle EXCEPT !.value = v, !.field = f, !.pc = "start"] :
                      v \in ValuesOf(MaxValue) \ {<<>>}, f \in {"title", "url"}}
    /\ think = ThinkIdle
    /\ name = NameIdle
    /\ input = <<>>
    /\ pos = 0
    /\ filter = NewSearchRefFilter
    /\ emitted = <<>>
    /\ fpc = "idle"
    /\ HandlersIdle
    /\ req = ReqIdle
    /\ conc = ConcIdle

\* ParseSearchResults on the search-result block that holds the value
ParseSearch ==
    /\ parse.pc = "start"
    /\ parse' = [parse EXCEPT
                     !.search = ParseSearchResults(
                                    SearchBlockOf(TitleOf(parse, RawValue(parse.value)),
                                                  LinkOf(parse, RawValue(parse.value)))),
                     !.pc = "search"]
    /\ UNCHANGED <<input, pos, filter, emitted, fpc, pool, read, ost, ons, cst, cns, hpc, think, name, req, conc>>

\* ParseImageSearchResults on the image-search block that holds the value
ParseImage ==
    /\ parse.pc = "search"
    /\ parse' = [parse EXCEPT
                     !.image = ParseImageSearchResults(
                                   ImageBlockOf(TitleOf(parse, RawValue(parse.value)),
                                                LinkOf(parse, RawValue(parse.value)))),
                     !.pc = "parsed"]
    /\ UNCHANGED <<input, pos, filter, emitted, fpc, pool, read, ost, ons, cst, cns, hpc, think, name, req, conc>>

ParseNext == ParseSearch \/ ParseImage

SpecParse == ParseInit /\ [][ParseNext]_vars

\* the records a block that holds the value stands for
ExpectedSearch ==
    <<SearchResult(TitleOf(parse, DecodedValue(parse.value)),
                   LinkOf(parse, DecodedValue(parse.value)), 1, RefShort)>>

ExpectedImage ==
    <<[Title |-> TitleOf(parse, DecodedValue(parse.value)),
       Link |-> LinkOf(parse, DecodedValue(parse.value)),
       Thumbnail |-> <<>>]>>

\* C12: a title or a link that holds brackets, braces or an escaped quote
\* inside its quoted string does not change what the two parsers return: the
\* one record of the block, with the value decoded
C12_BracketsInsideStrings ==
    /\ parse.pc \in {"search", "parsed"} => parse.search = ExpectedSearch
    /\ parse.pc = "parsed" => parse.image = ExpectedImage

\* the image-search half of C12 alone
ImageBracketsInsideStrings == parse.pc = "parsed" => parse.image = ExpectedImage

(***************************************************************************)
(* Payloads that abort a handler                                           *)
(***************************************************************************)
\* C13: whatever the upstream lines are, no handler dies inside its scan
\* loop, and once the body has ended every handler has run its closing code
C13_NoAbort ==
    /\ ost.pc # "panicked" /\ ons.pc # "panicked"
    /\ cst.pc # "panicked" /\ cns.pc # "panicked"
    /\ hpc = "closed" =>
           ost.pc = "done" /\ ons.pc = "done" /\ cst.pc = "done" /\ cns.pc = "done"

(***************************************************************************)
(* ParseModelName given a base name and a run of suffixes                  *)
(***************************************************************************)
MaxSuffixes == 3

\* base names: none ends with a suffix; one is empty, one holds a suffix in
\* its middle, one ends with a suffix cut short
BaseNames ==
    {<<>>,
     <<"G", "L", "M", "-", "4", ".", "6">>,
     <<"G", "L", "M", "-", "s", "e", "a", "r", "c", "h", "-", "4", ".", "5", "-", "V">>,
     <<"x", "-", "s", "e", "a", "r", "c">>}

RECURSIVE SuffixRuns(_)
SuffixRuns(n) ==
    IF n = 0 THEN {<<>>}
    ELSE LET shorter == SuffixRuns(n - 1)
         IN  shorter \cup {r \o <<x>> : r \in shorter, x \in {SuffixThinking, SuffixSearch}}

\* the model name a client writes: the base name and the suffixes after it
ModelOf(base, run) == base \o Concat(run)

NameInit ==
    /\ name \in {[NameIdle EXCEPT !.base = b, !.run = r, !.pc = "named"] :
                     b \in BaseNames, r \in SuffixRuns(MaxSuffixes)}
    /\ think = ThinkIdle
    /\ parse = ParseIdle
    /\ input = <<>>
    /\ pos = 0
    /\ filter = NewSearchRefFilter
    /\ emitted = <<>>
    /\ fpc = "idle"
    /\ HandlersIdle
    /\ req = ReqIdle
    /\ conc = ConcIdle

\* ParseModelName and GetTargetModel on the model name
NameParse ==
    /\ name.pc = "named"
    /\ name' = [name EXCEPT !.parsed = ParseModelName(ModelOf(name.base, name.run)),
                            !.target = GetTargetModel(ModelOf(name.base, name.run)),
                            !.pc = "parsed"]
    /\ UNCHANGED <<input, pos, filter, emitted, fpc, pool, read, ost, ons, cst, cns, hpc,
                   think, parse, req, conc>>

\* ParseModelName on the base name it returned
NameParseAgain ==
    /\ name.pc = "parsed"
    /\ name' = [name EXCEPT !.again = ParseModelName(name.parsed.baseModel),
                            !.pc = "parsed again"]
    /\ UNCHANGED <<input, pos, filter, emitted, fpc, pool, read, ost, ons, cst, cns, hpc,
                   think, parse, req, conc>>

NameNext == NameParse \/ NameParseAgain

SpecModelName == NameInit /\ [][NameNext]_vars

Occurs(run, suffix) == \E i \in 1..Len(run) : run[i] = suffix

\* C16: for a base name that ends with neither suffix and any run of suffixes
\* after it, ParseModelName returns the base name, enableThinking exactly when
\* -thinking is in the run and enableSearch exactly when -search is; the base
\* name returned ends with neither suffix, and ParseModelName returns it
\* unchanged with both flags false
C16_ModelNameGrammar ==
    /\ name.pc \in {"parsed", "parsed again"} =>
           /\ name.parsed.baseModel = name.base
           /\ name.parsed.enableThinking <=> Occurs(name.run, SuffixThinking)
           /\ name.parsed.enableSearch <=> Occurs(name.run, SuffixSearch)
           /\ ~HasSuffix(name.parsed.baseModel, SuffixThinking)
           /\ ~HasSuffix(name.parsed.baseModel, SuffixSearch)
    /\ name.pc = "parsed again" =>
           name.again = [baseModel |-> name.parsed.baseModel,
                         enableThinking |-> FALSE, enableSearch |-> FALSE]

\* a name with -search twice and -thinking between, after a base name that
\* ends with a suffix cut short, has been parsed and parsed again
C16_Witness ==
    /\ name.pc = "parsed again"
    /\ name.run = <<SuffixSearch, SuffixThinking, SuffixSearch>>
    /\ name.base = <<"x", "-", "s", "e", "a", "r", "c">>
    /\ name.parsed.enableThinking /\ name.parsed.enableSearch

(***************************************************************************)
(* claude.go: the handlers run over a whole upstream body                  *)
(***************************************************************************)
\* handleStreamResponse from its locals h on: the handlers it may end as
RECURSIVE StreamRun(_, _)
StreamRun(h, lines) ==
    IF ~Running(h) THEN {h}
    ELSE IF lines = <<>> \/ Ends(Head(lines)) THEN {StreamFinish(h)}
    ELSE UNION {StreamRun(h1, Tail(lines)) : h1 \in StreamStep(h, Head(lines))}

RECURSIVE NonStreamRun(_, _)
NonStreamRun(h, lines) ==
    IF ~Running(h) THEN {h}
    ELSE IF lines = <<>> \/ Ends(Head(lines)) THEN {NonStreamFinish(h)}
    ELSE UNION {NonStreamRun(h1, Tail(lines)) : h1 \in NonStreamStep(h, Head(lines))}

RECURSIVE ClaudeStreamRun(_, _)
ClaudeStreamRun(h, lines) ==
    IF ~Running(h) THEN {h}
    ELSE IF lines = <<>> \/ Ends(Head(lines)) THEN {ClaudeStreamFinish(h)}
    ELSE UNION {ClaudeStreamRun(h1, Tail(lines)) : h1 \in ClaudeStreamStep(h, Head(lines))}

RECURSIVE ClaudeNonStreamRun(_, _)
ClaudeNonStreamRun(h, lines) ==
    IF ~Running(h) THEN {h}
    ELSE IF lines = <<>> \/ Ends(Head(lines)) THEN {ClaudeNonStreamFinish(h)}
    ELSE UNION {ClaudeNonStreamRun(h1, Tail(lines)) : h1 \in ClaudeNonStreamStep(h, Head(lines))}

handleStreamResponse(lines) == StreamRun(NewStream, lines)

handleNonStreamResponse(lines) == NonStreamRun(NewNonStream, lines)

handleClaudeStreamResponse(lines) == ClaudeStreamRun(ClaudeStreamBegin(NewClaudeStream), lines)

handleClaudeNonStreamResponse(lines) == ClaudeNonStreamRun(NewClaudeNonStream, lines)

(***************************************************************************)
(* claude.go: HandleChatCompletions and HandleClaudeChatCompletions        *)
(*                                                                         *)
(* A request is followed through its handler step by step: the credential, *)
(* the anonymous token, the body, the upstream request, the response.      *)
(* GetAnonymousToken and DecodeJWTPayload are not part of the sources at   *)
(* hand: each either succeeds or fails.                                    *)
(***************************************************************************)
Bearer == <<"B", "e", "a", "r", "e", "r", " ">>
Free == <<"f", "r", "e", "e">>
Glm45 == <<"G", "L", "M", "-", "4", ".", "5">>
Glm46 == <<"G", "L", "M", "-", "4", ".", "6">>
Glm45v == <<"g", "l", "m", "-", "4", ".", "5", "v">>
Glm46v == <<"g", "l", "m", "-", "4", ".", "6", "v">>
Opus == <<"o", "p", "u", "s">>
Sonnet == <<"s", "o", "n", "n", "e", "t">>

mapClaudeModel(claudeModel) ==
    IF Contains(claudeModel, Opus) \/ Contains(claudeModel, Sonnet) THEN Glm46 ELSE Glm45

\* the credential the handler works with: lines 743 and 160-163
Credential(r) ==
    IF r.endpoint = "/v1/messages" /\ r.xApiKey # <<>> THEN r.xApiKey
    ELSE TrimPrefix(r.authorization, Bearer)

\* a body that is taken for decoded whatever it holds
DecodeNeverFails(body) == FALSE

\* json.NewDecoder(r.Body).Decode(&req) returns an error
DecodeFails(body) == ~body.decodes

\* a status check that answers 502 for every upstream failure
StatusBadGateway(resp) == 502

\* the status http.Error is given for an upstream response that is not 200
ErrorStatus(resp) == resp.status

\* http.Error and return: the response is written and the handler is over
Rejected(r, status, text) == [r EXCEPT !.status = status, !.text = text, !.pc = "done"]

\* the upstream chat request makeUpstreamRequest posts for the model
ChatRequest(model) ==
    [kind |-> "chat",
     model |-> GetTargetModel(model),
     enable_thinking |-> IsThinkingModel(model),
     auto_web_search |-> IsSearchModel(model) /\ GetTargetModel(model) \notin {Glm45v, Glm46v}]

\* lines 743-747 and 146-169: the preflight answer and the credential
ReqCredential ==
    /\ req.pc = "received"
    /\ req' = IF req.endpoint = "/v1/messages" /\ req.method = "OPTIONS"
              THEN Rejected(req, 200, "")
              ELSE IF Credential(req) = <<>>
              THEN Rejected(req, 401,
                            IF req.endpoint = "/v1/messages"
                            THEN "authentication_error: Missing API key" ELSE "Unauthorized")
              ELSE [req EXCEPT !.token = Credential(req),
                               !.pc = IF Credential(req) = Free THEN "anonymous" ELSE "decode"]
    /\ UNCHANGED <<input, pos, filter, emitted, fpc, pool, read, ost, ons, cst, cns, hpc, pureVars, conc>>

\* lines 749-757 and 173-181: the credential "free" is traded for an anonymous
\* token
ReqAnonymousToken(ok) ==
    /\ req.pc = "anonymous"
    /\ req' = IF ok
              THEN [req EXCEPT !.calls = Append(@, [kind |-> "token"]),
                               !.token = <<"a">>, !.pc = "decode"]
              ELSE Rejected([req EXCEPT !.calls = Append(@, [kind |-> "token"])], 500,
                            IF req.endpoint = "/v1/messages"
                            THEN "api_error: Failed to get token"
                            ELSE "Failed to get anonymous token")
    /\ UNCHANGED <<input, pos, filter, emitted, fpc, pool, read, ost, ons, cst, cns, hpc, pureVars, conc>>

\* lines 759-767 and 183-201: the body is decoded and the model chosen
ReqDecode ==
    /\ req.pc = "decode"
    /\ req' = IF DecodeFails(req.body)
              THEN Rejected(req, 400,
                            IF req.endpoint = "/v1/messages"
                            THEN "invalid_request_error: Invalid JSON" ELSE "Invalid request")
              ELSE [req EXCEPT !.decoded = TRUE,
                               !.model = IF req.endpoint = "/v1/messages"
                                         THEN mapClaudeModel(req.body.model)
                                         ELSE IF req.body.model = <<>> THEN Glm46
                                         ELSE req.body.model,
                               !.pc = "upstream"]
    /\ UNCHANGED <<input, pos, filter, emitted, fpc, pool, read, ost, ons, cst, cns, hpc, pureVars, conc>>

\* what upstream may answer: a status, a text for a failure, lines for a success
UpstreamResponses ==
    {[status |-> 200, text |-> "", lines |-> <<AnsHi>>],
     [status |-> 200, text |-> "", lines |-> <<AnsSee, AnsTail, DoneEvent>>]}
        \cup {[status |-> s, text |-> "upstream body", lines |-> <<>>] :
                  s \in {204, 401, 429, 500}}

\* lines 769-775 and 203-208, makeUpstreamRequest: the token that is no JWT and
\* the request that fails are answered 502
ReqUpstream(jwt, answered, resp) ==
    /\ req.pc = "upstream"
    /\ req' = IF ~jwt
              THEN Rejected(req, 502,
                            IF req.endpoint = "/v1/messages"
                            THEN "api_error: Upstream error" ELSE "Upstream error")
              ELSE IF ~answered
              THEN Rejected([req EXCEPT !.calls = Append(@, ChatRequest(req.model))], 502,
                            IF req.endpoint = "/v1/messages"
                            THEN "api_error: Upstream error" ELSE "Upstream error")
              ELSE [req EXCEPT !.calls = Append(@, ChatRequest(req.model)),
                               !.upstream = resp, !.pc = "respond"]
    /\ UNCHANGED <<input, pos, filter, emitted, fpc, pool, read, ost, ons, cst, cns, hpc, pureVars, conc>>

\* the events or the JSON object a handler writes for the upstream lines
Handled(r) ==
    IF r.endpoint = "/v1/messages"
    THEN IF r.body.stream THEN handleClaudeStreamResponse(r.upstream.lines)
         ELSE handleClaudeNonStreamResponse(r.upstream.lines)
    ELSE IF r.body.stream THEN handleStreamResponse(r.upstream.lines)
         ELSE handleNonStreamResponse(r.upstream.lines)

\* lines 777-795 and 210-221: the upstream status, then the response handler
ReqRespond ==
    /\ req.pc = "respond"
    /\ \/ /\ req.upstream.status # 200
          /\ req' = Rejected(req, ErrorStatus(req.upstream),
                             IF req.endpoint = "/v1/messages"
                             THEN "api_error: Upstream error" ELSE "Upstream error")
       \/ /\ req.upstream.status = 200
          /\ \E h \in Handled(req) :
                 req' = [req EXCEPT !.status = 200, !.events = h.out, !.pc = "done"]
    /\ UNCHANGED <<input, pos, filter, emitted, fpc, pool, read, ost, ons, cst, cns, hpc, pureVars, conc>>

Requests ==
    {[ReqIdle EXCEPT !.endpoint = e, !.method = m, !.authorization = a, !.xApiKey = k,
                     !.body = b, !.pc = "received"] :
         e \in {"/v1/chat/completions", "/v1/messages"},
         m \in {"POST", "OPTIONS"},
         a \in {<<>>, Bearer, Bearer \o <<"t">>, Bearer \o Free},
         k \in {<<>>, <<"k">>},
         b \in {[decodes |-> FALSE, stream |-> FALSE, model |-> <<>>]}
                   \cup {[decodes |-> TRUE, stream |-> st, model |-> mo] :
                             st \in BOOLEAN,
                             mo \in {<<>>, Glm46 \o SuffixThinking \o SuffixSearch}}}

ReqInit ==
    /\ req \in Requests
    /\ think = ThinkIdle
    /\ parse = ParseIdle
    /\ name = NameIdle
    /\ input = <<>>
    /\ pos = 0
    /\ filter = NewSearchRefFilter
    /\ emitted = <<>>
    /\ fpc = "idle"
    /\ HandlersIdle
    /\ conc = ConcIdle

ReqNext ==
    \/ ReqCredential
    \/ \E ok \in BOOLEAN : ReqAnonymousToken(ok)
    \/ ReqDecode
    \/ \E jwt \in BOOLEAN, answered \in BOOLEAN, resp \in UpstreamResponses :
           ReqUpstream(jwt, answered, resp)
    \/ ReqRespond

SpecRequest == ReqInit /\ [][ReqNext]_vars

(***************************************************************************)
(* What a client request leads to                                          *)
(***************************************************************************)
\* the request carries no credential: the bearer value is empty and, on
\* /v1/messages, there is no x-api-key either
MissingCredential ==
    /\ TrimPrefix(req.authorization, Bearer) = <<>>
    /\ req.endpoint = "/v1/messages" => req.xApiKey = <<>>

\* the upstream chat requests issued for the request so far
ChatCalls == {i \in 1..Len(req.calls) : req.calls[i].kind = "chat"}

\* the CORS preflight of /v1/messages
Preflight == req.endpoint = "/v1/messages" /\ req.method = "OPTIONS"

\* no chat request has been issued and no event written for a request that
\* lacks a credential or whose body does not decode, and a chat request is
\* issued only once the credential is there and the body is decoded
NothingBeforeValidation ==
    /\ (req.pc # "idle" /\ (MissingCredential \/ ~req.body.decodes)) =>
           ChatCalls = {} /\ req.events = <<>>
    /\ ChatCalls # {} => req.token # <<>> /\ req.decoded

\* C14 as stated: a request without a credential or with a body that does not
\* decode is answered with an error status, causes no upstream chat request
\* and no stream event; a chat request is issued only after both checks
C14_ValidationFirst ==
    /\ NothingBeforeValidation
    /\ (req.pc = "done" /\ (MissingCredential \/ ~req.body.decodes)) => req.status >= 400

\* C14, amended: as above, except that the OPTIONS preflight of /v1/messages
\* is answered 200 before any check is made
C14_ValidationFirstButPreflight ==
    /\ NothingBeforeValidation
    /\ (req.pc = "done" /\ (MissingCredential \/ ~req.body.decodes)) =>
           IF Preflight THEN req.status = 200 ELSE req.status >= 400

\* a request whose credential "free" was traded for a token and whose body did
\* not decode has been answered 400
C14_Witness ==
    /\ req.pc = "done"
    /\ req.token = <<"a">>
    /\ ~req.body.decodes
    /\ req.status = 400
    /\ req.calls = <<[kind |-> "token"]>>

\* C15: when upstream answers with a status that is no success, the client
\* gets that status with the handler's own error text, nothing of the upstream
\* body, and no event
C15_UpstreamStatusPassedOn ==
    (req.pc = "done" /\ req.upstream.status >= 300) =>
        /\ req.status = req.upstream.status
        /\ req.text \in {"Upstream error", "api_error: Upstream error"}
        /\ req.text # req.upstream.text
        /\ req.events = <<>>

\* upstream answered 429 to a streaming request and the client was answered
C15_Witness ==
    /\ req.pc = "done"
    /\ req.body.stream
    /\ req.upstream.status = 429
    /\ req.status = 429

(***************************************************************************)
(* Two requests served at once                                             *)
(*                                                                         *)
(* net/http runs every request in a goroutine of its own.  Each of the two *)
(* stream handlers works on the locals it declares (lines 808-815 and      *)
(* 263-267) and on the body of its own upstream response; the goroutines   *)
(* take their steps in any order.                                          *)
(***************************************************************************)
Clients == {"a", "b"}

\* handleStreamResponse over lines that do not end the loop, without the
\* closing code: the handlers it may be left as
RECURSIVE StreamSteps(_, _)
StreamSteps(h, lines) ==
    IF lines = <<>> \/ ~Running(h) THEN {h}
    ELSE UNION {StreamSteps(h1, Tail(lines)) : h1 \in StreamStep(h, Head(lines))}

RECURSIVE ClaudeStreamSteps(_, _)
ClaudeStreamSteps(h, lines) ==
    IF lines = <<>> \/ ~Running(h) THEN {h}
    ELSE UNION {ClaudeStreamSteps(h1, Tail(lines)) : h1 \in ClaudeStreamStep(h, Head(lines))}

\* the locals of a handler that shares the citation filter of client "a"
LocalsSharingFilter(c, r) == [c[r].h EXCEPT !.searchRefFilter = c["a"].h.searchRefFilter]

\* the locals the goroutine of request r works on
Locals(c, r) == c[r].h

\* the bodies the two upstream responses may have
ConcBodies ==
    {<<SearchBlock, AnsSee, AnsTail>>, <<ThinkQ, ThinkW, AnsHi>>,
     <<OtherAb, OtherAbc, Sentinel>>, <<PanicEdit, AnsHi>>}

Serving(kind, body) ==
    [kind |-> kind, body |-> body, at |-> 0,
     h |-> IF kind = "claude" THEN ClaudeStreamBegin(NewClaudeStream) ELSE NewStream]

ConcInit ==
    /\ conc \in [Clients -> {Serving(k, b) : k \in {"openai", "claude"}, b \in ConcBodies}]
    /\ think = ThinkIdle
    /\ parse = ParseIdle
    /\ name = NameIdle
    /\ req = ReqIdle
    /\ input = <<>>
    /\ pos = 0
    /\ filter = NewSearchRefFilter
    /\ emitted = <<>>
    /\ fpc = "idle"
    /\ HandlersIdle

\* the goroutine of request r reads the next line of its body, which does not
\* end the loop, and handles it
ConcScan(r) ==
    /\ Running(conc[r].h)
    /\ conc[r].at < Len(conc[r].body)
    /\ ~Ends(conc[r].body[conc[r].at + 1])
    /\ \E h1 \in IF conc[r].kind = "claude"
                 THEN ClaudeStreamStep(Locals(conc, r), conc[r].body[conc[r].at + 1])
                 ELSE StreamStep(Locals(conc, r), conc[r].body[conc[r].at + 1]) :
           conc' = [conc EXCEPT ![r].h = h1, ![r].at = @ + 1]
    /\ UNCHANGED <<input, pos, filter, emitted, fpc, pool, read, ost, ons, cst, cns, hpc, pureVars, req>>

\* the goroutine of request r finds its body at its end, or reads a line that
\* ends the loop, and runs its closing code
ConcFinish(r) ==
    /\ Running(conc[r].h)
    /\ IF conc[r].at = Len(conc[r].body) THEN TRUE ELSE Ends(conc[r].body[conc[r].at + 1])
    /\ conc' = [conc EXCEPT ![r].h = IF conc[r].kind = "claude"
                                     THEN ClaudeStreamFinish(Locals(conc, r))
                                     ELSE StreamFinish(Locals(conc, r))]
    /\ UNCHANGED <<input, pos, filter, emitted, fpc, pool, read, ost, ons, cst, cns, hpc, pureVars, req>>

ConcNext == \E r \in Clients : ConcScan(r) \/ ConcFinish(r)

SpecConcurrent == ConcInit /\ [][ConcNext]_vars

\* what the handler of a request is left as when it is served alone: after the
\* lines it has read so far, or after its closing code
Alone(s) ==
    IF s.h.pc = "done"
    THEN IF s.kind = "claude" THEN handleClaudeStreamResponse(s.body)
         ELSE handleStreamResponse(s.body)
    ELSE IF s.kind = "claude"
    THEN ClaudeStreamSteps(ClaudeStreamBegin(NewClaudeStream), SubSeq(s.body, 1, s.at))
    ELSE StreamSteps(NewStream, SubSeq(s.body, 1, s.at))

\* C17: served at once, in any interleaving, each request has written what it
\* writes when it is served alone, its filters and counters are what they are
\* then, and a step of one request leaves the other request as it was
C17_RequestIsolation ==
    /\ [](conc # ConcIdle => \A r \in Clients : conc[r].h \in Alone(conc[r]))
    /\ [][\E r \in Clients : \A o \in Clients \ {r} : conc'[o] = conc[o]]_vars

\* both requests are between two lines, each citation filter holding the
\* opened token of its own request, one request having registered a result
C17_Witness ==
    /\ conc # ConcIdle
    /\ conc["a"].at = 2 /\ conc["b"].at = 2
    /\ conc["a"].body = <<SearchBlock, AnsSee, AnsTail>>
    /\ conc["b"].body = <<SearchBlock, AnsSee, AnsTail>>
    /\ conc["a"].kind = "openai" /\ conc["b"].kind = "claude"
    /\ conc["a"].h.searchRefFilter.buffer # <<>>
    /\ conc["b"].h.searchRefFilter.buffer # <<>>

(***************************************************************************)
(* The citation filter between two calls of Process                        *)
(***************************************************************************)
\* the text given to Process so far
Seen == SubSeq(input, 1, pos)

\* C18: after every call of Process, when the text given so far ends with a
\* proper prefix of a citation token, whatever the lengths of its two digit
\* runs, the whole prefix is in the pending buffer and none of it was returned
C18_PrefixWithheld ==
    (fpc = "feeding" /\ pos > 0) =>
        \A j \in 1..pos : searchRefPrefixPattern(Seen, j) => filter.buffer = From(Seen, j)

\* the same for the prefixes of at most maxPrefixLen bytes
PrefixWithheldWithinLimit ==
    (fpc = "feeding" /\ pos > 0) =>
        \A j \in 1..pos :
            (searchRefPrefixPattern(Seen, j) /\ ByteLen(From(Seen, j)) <= maxPrefixLen)
                => filter.buffer = From(Seen, j)

(***************************************************************************)
(* The bibliography of a registered batch of search results                *)
(***************************************************************************)
\* the lines read that register a batch of search results that is not empty
Batches ==
    {i \in DOMAIN read :
         /\ read[i].kind = "event"
         /\ ~(read[i].phase = "thinking" /\ read[i].delta # <<>>)
         /\ read[i].edit # <<>>
         /\ IsSearchResultContent(read[i].edit)
         /\ ParseSearchResults(read[i].edit) # <<>>}

\* the texts written to the client that are a bibliography of the registry
Bibliographies(h) ==
    {i \in DOMAIN h.out : h.out[i].text \in GetSearchResultsMarkdown(h.searchRefFilter)}

\* C19: when the two stream handlers have written their terminal events after
\* a body that registered one batch of search results, each has written the
\* bibliography of that batch exactly once, whatever followed the batch
C19_BibliographyOnce ==
    (hpc = "closed" /\ ost.pc = "done" /\ cst.pc = "done" /\ Cardinality(Batches) = 1) =>
        /\ Cardinality(Bibliographies(ost)) = 1
        /\ Cardinality(Bibliographies(cst)) = 1

(***************************************************************************)
(* What handleStreamResponse still holds after its terminal events         *)
(***************************************************************************)
\* the handler holds nothing it has not written: Flush of either filter
\* empties its buffer, and a pending text is emptied when it is written
NothingHeld(h) ==
    /\ h.thinkingFilter.buffer = <<>>
    /\ h.searchRefFilter.buffer = <<>>
    /\ h.pendingSourcesMarkdown = <<>>
    /\ h.pendingImageSearchMarkdown = <<>>

\* C20: when the scan loop has stopped, at the sentinel, at an event of phase
\* done or at the end of the body, and the terminal events are written, the
\* buffer of the thinking filter, the buffer of the citation filter and the
\* pending bibliography and image list have all been written to the client
C20_AllFlushed == (hpc = "closed" /\ ost.pc = "done") => NothingHeld(ost)

(***************************************************************************)
(* The pending buffer of the citation filter                               *)
(***************************************************************************)
\* C21: after every call of Process and of Flush the pending buffer is at
\* most maxPrefixLen bytes long, is empty or a bracket followed by a prefix of
\* the token grammar, holds no complete citation token, and is empty after
\* Flush
C21_PendingBuffer ==
    /\ ByteLen(filter.buffer) <= maxPrefixLen
    /\ filter.buffer # <<>> => searchRefPrefixPattern(filter.buffer, 1)
    /\ \A i \in 1..Len(filter.buffer) : searchRefPattern(filter.buffer, i) = 0
    /\ fpc = "flushed" => filter.buffer = <<>>

\* Process has returned with a buffer of exactly maxPrefixLen bytes
C21_Witness ==
    /\ fpc = "feeding"
    /\ pos > 0
    /\ ByteLen(filter.buffer) = maxPrefixLen

(***************************************************************************)
(* The thinking filter given any text as the thinking deltas of one round  *)
(*                                                                         *)
(* The round is new, or its first delta "> " has been processed already.   *)
(* deltas and outs keep every delta given to ProcessThinking and what it   *)
(* returned.                                                               *)
(***************************************************************************)
MaxRaw == 5

RawChars == {"q", "\n", ">", " "}

RECURSIVE RawTexts(_)
RawTexts(n) ==
    IF n = 0 THEN {<<>>}
    ELSE LET shorter == RawTexts(n - 1)
         IN  shorter \cup {t \o <<c>> : t \in shorter, c \in RawChars}

\* the round after the deltas in led, text being what is still to come
RoundAfter(led, text) ==
    [text |-> text, pos |-> 0, emitted |-> <<>>, pc |-> "deltas", deltas |-> led,
     outs |-> [i \in DOMAIN led |-> <<>>],
     filter |-> IF led = <<>> THEN NewThinkingFilter
                ELSE ProcessThinking(NewThinkingFilter, led[1]).f]

DeltaInit ==
    /\ think \in {RoundAfter(led, t) : led \in {<<>>, <<Marker>>},
                                       t \in RawTexts(MaxRaw) \ {<<>>}}
    /\ input = <<>>
    /\ pos = 0
    /\ filter = NewSearchRefFilter
    /\ emitted = <<>>
    /\ fpc = "idle"
    /\ HandlersIdle
    /\ parse = ParseIdle
    /\ name = NameIdle
    /\ req = ReqIdle
    /\ conc = ConcIdle

\* one thinking delta: the next k characters of the text
DeltaFeed(k) ==
    /\ think.pc = "deltas"
    /\ think.pos + k <= Len(think.text)
    /\ LET Fed(delta, r) ==
               think' = [think EXCEPT !.filter = r.f, !.emitted = @ \o r.out, !.pos = @ + k,
                                      !.deltas = Append(@, delta), !.outs = Append(@, r.out)]
           Given(delta) == Fed(delta, ProcessThinking(think.filter, delta))
       IN  Given(SubSeq(think.text, think.pos + 1, think.pos + k))
    /\ UNCHANGED <<input, pos, filter, emitted, fpc, pool, read, ost, ons, cst, cns, hpc, parse, name, req, conc>>

\* the Flush that follows the last delta
DeltaFlush ==
    /\ think.pc = "deltas"
    /\ think.pos = Len(think.text)
    /\ LET r == ThinkingFilterFlush(think.filter)
       IN  think' = [think EXCEPT !.filter = r.f, !.emitted = @ \o r.out, !.pc = "flushed"]
    /\ UNCHANGED <<input, pos, filter, emitted, fpc, pool, read, ost, ons, cst, cns, hpc, parse, name, req, conc>>

DeltaNext ==
    \/ \E k \in 1..MaxRaw : DeltaFeed(k)
    \/ DeltaFlush

SpecDeltas == DeltaInit /\ [][DeltaNext]_vars

InRound == think.pc \in {"deltas", "flushed"}

\* no delta up to the i-th holds the marker
NoMarkerUpTo(i) == \A j \in 1..i : Index(think.deltas[j], Marker) = 0

\* C22: in a round every delta given before the first delta that holds the
\* marker "> " returns nothing, however many there are, and the delta in
\* which the marker first appears returns what the text after the marker gives
C22_SuppressedUntilMarker ==
    InRound =>
        \A i \in DOMAIN think.deltas :
            /\ NoMarkerUpTo(i) => think.outs[i] = <<>>
            /\ (NoMarkerUpTo(i - 1) /\ ~NoMarkerUpTo(i)) =>
                   think.outs[i] =
                       NormalizeThinking(NewThinkingFilter,
                           From(think.deltas[i], Index(think.deltas[i], Marker) + 2)).out

\* the same for the first delta of the round only
FirstDeltaRule ==
    (InRound /\ think.deltas # <<>>) =>
        /\ NoMarkerUpTo(1) => think.outs[1] = <<>>
        /\ ~NoMarkerUpTo(1) =>
               think.outs[1] =
                   NormalizeThinking(NewThinkingFilter,
                       From(think.deltas[1], Index(think.deltas[1], Marker) + 2)).out

(***************************************************************************)
(* Thinking rounds in the lines read                                       *)
(***************************************************************************)
IsThinkingDelta(u) == u.kind = "event" /\ u.phase = "thinking" /\ u.delta # <<>>

\* the phase of the last event read that names one, "" when there is none
RECURSIVE RecordedPhase(_)
RecordedPhase(lines) ==
    IF lines = <<>> THEN ""
    ELSE IF lines[Len(lines)].kind = "event" /\ lines[Len(lines)].phase # ""
    THEN lines[Len(lines)].phase
    ELSE RecordedPhase(SubSeq(lines, 1, Len(lines) - 1))

\* the thinking delta u read after lines begins a round that is not the
\* first round of the response
BeginsLaterRound(lines, u) ==
    /\ IsThinkingDelta(u)
    /\ RecordedPhase(lines) \notin {"", "thinking"}
    /\ \E j \in DOMAIN lines : IsThinkingDelta(lines[j])

\* what a step adds to a sequence
Added(before, after) == SubSeq(after, Len(before) + 1, Len(after))

\* the reasoning text a step of the OpenAI stream writes
ReasoningWritten == TextOfKind(Added(ost.out, ost'.out), "reasoning")

\* the reasoning text a step of the aggregating handler collects
ReasoningCollected == Concat(Added(ons.reasoningChunks, ons'.reasoningChunks))

Separator == <<"\n", "\n">>

\* C23: when a thinking delta begins a round that is not the first round of
\* the response and gives reasoning text, both OpenAI handlers put a double
\* newline in front of that text, whether the response began with a thinking
\* event or with another one; a thinking delta that does not begin such a
\* round gets no separator.  (The text written is looked at when the citation
\* filter holds nothing that would be written in front of it.)
C23_RoundSeparator ==
    [][\A u \in pool :
           (hpc = "scanning" /\ read' = Append(read, u) /\ IsThinkingDelta(u)
                /\ Running(ost) /\ Running(ons)) =>
               /\ (ReasoningWritten # <<>> /\ ost.searchRefFilter.buffer = <<>>) =>
                      (HasPrefix(ReasoningWritten, Separator) <=> BeginsLaterRound(read, u))
               /\ (ReasoningCollected # <<>> /\ ReasoningCollected # Separator) =>
                      (HasPrefix(ReasoningCollected, Separator) <=> BeginsLaterRound(read, u))]_vars

\* the same for the responses whose first event that names a phase is not a
\* thinking event
RoundSeparatorAfterOtherStart ==
    [][\A u \in pool :
           (hpc = "scanning" /\ read' = Append(read, u) /\ IsThinkingDelta(u)
                /\ Running(ost) /\ Running(ons)
                /\ \E j \in DOMAIN read :
                       /\ RecordedPhase(SubSeq(read, 1, j)) \notin {"", "thinking"}
                       /\ \A i \in 1..j : ~IsThinkingDelta(read[i])) =>
               /\ (ReasoningWritten # <<>> /\ ost.searchRefFilter.buffer = <<>>) =>
                      (HasPrefix(ReasoningWritten, Separator) <=> BeginsLaterRound(read, u))
               /\ (ReasoningCollected # <<>> /\ ReasoningCollected # Separator) =>
                      (HasPrefix(ReasoningCollected, Separator) <=> BeginsLaterRound(read, u))]_vars

(***************************************************************************)
(* The thinking filter of handleStreamResponse from round to round         *)
(***************************************************************************)
IsThinkingEvent(u) == u.kind = "event" /\ u.phase = "thinking"

\* C24: when the OpenAI stream reads a thinking event while the recorded
\* phase is neither empty nor thinking, it counts one more round and resets
\* the thinking filter before the content of the round is processed, also
\* when that event has an empty delta; a thinking event read while the
\* recorded phase is thinking counts no round
C24_RoundReset ==
    [][\A u \in pool :
           (hpc = "scanning" /\ read' = Append(read, u) /\ IsThinkingEvent(u) /\ Running(ost)) =>
               IF RecordedPhase(read) \notin {"", "thinking"}
               THEN /\ ost'.thinkingFilter.thinkingRoundCount =
                           ost.thinkingFilter.thinkingRoundCount + 1
                    /\ ost'.thinkingFilter.lastPhase = "thinking"
                    /\ u.delta = <<>> =>
                           /\ ~ost'.thinkingFilter.hasSeenFirstThinking
                           /\ ost'.thinkingFilter.lastOutputChunk = <<>>
                    /\ u.delta # <<>> =>
                           ost'.thinkingFilter.lastOutputChunk \in
                               {<<>>, ProcessThinking(ResetForNewRound(ost.thinkingFilter),
                                                      u.delta).out,
                                Separator \o ProcessThinking(
                                    ResetForNewRound(ost.thinkingFilter), u.delta).out}
               ELSE ost'.thinkingFilter.thinkingRoundCount =
                        ost.thinkingFilter.thinkingRoundCount]_vars

\* the same for the thinking events that carry a delta and are not read
\* after a thinking event without one
RoundResetOnDelta ==
    [][\A u \in pool :
           (hpc = "scanning" /\ read' = Append(read, u) /\ IsThinkingDelta(u) /\ Running(ost)
                /\ ThinkEmpty \notin {read[i] : i \in DOMAIN read}) =>
               IF RecordedPhase(read) \notin {"", "thinking"}
               THEN /\ ost'.thinkingFilter.thinkingRoundCount =
                           ost.thinkingFilter.thinkingRoundCount + 1
                    /\ ost'.thinkingFilter.lastPhase = "thinking"
                    /\ ost'.thinkingFilter.lastOutputChunk \in
                           {<<>>, ProcessThinking(ResetForNewRound(ost.thinkingFilter),
                                                  u.delta).out,
                            Separator \o ProcessThinking(
                                ResetForNewRound(ost.thinkingFilter), u.delta).out}
               ELSE ost'.thinkingFilter.thinkingRoundCount =
                        ost.thinkingFilter.thinkingRoundCount]_vars

\* the marker was seen in a first delta "> " and text is what came after it
AfterMarker ==
    /\ InRound
    /\ think.deltas # <<>>
    /\ think.deltas[1] = Marker
    /\ Concat(Tail(think.deltas)) = SubSeq(think.text, 1, think.pos)

\* C25: once the marker has been seen, however the text that follows is cut
\* into deltas, what ProcessThinking returned for them followed by what Flush
\* returns is the text with every "\n> " replaced by "\n"
C25_CutIndependence ==
    (AfterMarker /\ think.pc = "flushed") =>
        think.emitted = ReplaceAll(think.text, LineMarker, <<"\n">>)

\* the same when no line of the text begins with a second marker, and what
\* is withheld between two deltas
CutIndependenceOfPlainLines ==
    AfterMarker =>
        /\ (think.pc = "flushed" /\ ~Contains(think.text, <<"\n", ">", " ", ">", " ">>)) =>
               think.emitted = ReplaceAll(think.text, LineMarker, <<"\n">>)
        /\ think.filter.buffer \in {<<>>, <<"\n">>, <<"\n", ">">>}

(***************************************************************************)
(* Reasoning sent as deltas and then again in the snapshot of the answer   *)
(***************************************************************************)
\* the lines read are the first delta, or both deltas, of the reasoning that
\* DetailsEdit carries, followed by that snapshot once or more
DeltasThenSnapshots ==
    \E k \in {1, 2} :
        /\ Len(read) > k
        /\ SubSeq(read, 1, k) = SubSeq(<<ThinkQ, ThinkW>>, 1, k)
        /\ \A i \in (k + 1)..Len(read) : read[i] = DetailsEdit

\* C26: when reasoning was written delta by delta and the answer snapshot
\* then carries the whole reasoning block, the OpenAI stream writes only what
\* it has not written yet: all the reasoning it wrote is the normalized body
\* of the block, and the same snapshot read again adds nothing
C26_NoReemission ==
    (hpc = "scanning" /\ Running(ost) /\ DeltasThenSnapshots) =>
        StreamReasoningText = ExtractCompleteThinking(DetailsText).out

\* the same when the snapshot is read once
NoReemissionInFirstSnapshot ==
    (hpc = "scanning" /\ Running(ost) /\ DeltasThenSnapshots
         /\ Cardinality({i \in DOMAIN read : read[i] = DetailsEdit}) = 1) =>
        StreamReasoningText = ExtractCompleteThinking(DetailsText).out

(***************************************************************************)
(* Lines that are not events, and lines behind the end of the stream       *)
(***************************************************************************)
\* the last line read ended the loop
EndRead == read # <<>> /\ Ends(read[Len(read)])

\* C27: a line without the "data: " prefix and a line whose payload does not
\* decode write nothing and leave the locals of every handler as they were:
\* the citation filter with its buffer and registry, the thinking filter, the
\* tracked length and the pending bibliography; and once the sentinel or an
\* event of phase done has been read, a further line changes nothing of what
\* the stream handlers write
C27_NoiseAndEnd ==
    /\ [][\A u \in {NoiseLine, BadJsonLine} :
              (hpc = "scanning" /\ read' = Append(read, u)) =>
                  /\ ost' = ost
                  /\ cst' = cst
                  /\ ons' = ons
                  /\ cns' = cns]_vars
    /\ []((hpc = "closed" /\ EndRead) =>
              \A u \in pool :
                  /\ handleStreamResponse(read \o <<u>>) = {ost}
                  /\ handleClaudeStreamResponse(read \o <<u>>) = {cst})

\* a payload that does not decode was read while the bibliography was pending
\* and the thinking filter held a newline
C27_Witness ==
    /\ hpc = "scanning"
    /\ read = <<SearchBlock, ThinkQ, BadJsonLine>>
    /\ ost.pendingSourcesMarkdown # <<>>
    /\ ost.thinkingFilter.buffer # <<>>
    /\ DOMAIN ost.searchRefFilter.searchResults # {}

(***************************************************************************)
(* Embedded blocks that do not decode                                      *)
(***************************************************************************)
\* the blocks of the pools whose array is cut off or is no JSON
BrokenBlocks == {BrokenBlock, BadArrayBlock, BrokenImage}

\* what a handler has registered, keeps pending and has written or collected
Kept(h) ==
    [registry |-> h.searchRefFilter.searchResults,
     buffer |-> h.searchRefFilter.buffer,
     sources |-> h.pendingSourcesMarkdown,
     out |-> h.out,
     pc |-> h.pc]

\* C28: a snapshot recognized as a search-result block or an image block
\* whose array is cut off or does not decode gives no results; the handler
\* that recognized it (all four for a search-result block, the two OpenAI
\* handlers for an image block) leaves the registry and the pending
\* bibliography and image list as they were, writes nothing of the block
\* and goes on with the next line
C28_BrokenBlockSkipped ==
    /\ [][\A u \in BrokenBlocks :
              (hpc = "scanning" /\ read' = Append(read, u)) =>
                  /\ Kept(ost') = Kept(ost)
                  /\ ost'.pendingImageSearchMarkdown = ost.pendingImageSearchMarkdown
                  /\ Kept(ons') = Kept(ons)
                  /\ ons'.chunks = ons.chunks
                  /\ ons'.pendingImageSearchMarkdown = ons.pendingImageSearchMarkdown
                  /\ IsSearchResultContent(u.edit) =>
                         /\ Kept(cst') = Kept(cst)
                         /\ Kept(cns') = Kept(cns)
                         /\ cns'.chunks = cns.chunks]_vars
    /\ [](/\ ParseSearchResults(BrokenText) = <<>>
          /\ ParseSearchResults(BadArrayText) = <<>>
          /\ ParseImageSearchResults(BrokenImageText) = <<>>
          /\ IsSearchResultContent(BrokenText) /\ IsSearchResultContent(BadArrayText)
          /\ Contains(BrokenImageText, QuotedSearchImage))

\* a registered block, a block cut off inside its array, then an answer: the
\* bibliography of the registered block and the answer are written
C28_Witness ==
    /\ hpc = "scanning"
    /\ read = <<SearchBlock, BrokenBlock, AnsHi>>
    /\ Cardinality(Bibliographies(ost)) = 1
    /\ StreamContentText = ost.out[1].text \o HiText
    /\ Cardinality(DOMAIN ost.searchRefFilter.searchResults) = 1

(***************************************************************************)
(* The tracked length after the reasoning block of an answer snapshot      *)
(***************************************************************************)
LastRead == read[Len(read)]

\* the last line read is an other/tool_call snapshot that follows the answer
\* snapshot with the closing tag directly
FirstSnapshotOfRun ==
    /\ Len(read) >= 2
    /\ read[Len(read) - 1] = DetailsEdit
    /\ LastRead \in {OtherAb, OtherAbc, ToolAbcde}

\* the first other/tool_call snapshot behind the answer snapshot is written whole
FirstSnapshotInFull ==
    (hpc = "scanning" /\ Running(ost) /\ FirstSnapshotOfRun) =>
        ost.out[Len(ost.out)] = [kind |-> "content", text |-> LastRead.edit]

\* C29: when the OpenAI stream has read an answer snapshot that holds the
\* closing tag of the reasoning block, the tracked length is zero, and the
\* first other/tool_call snapshot that follows is written in full
C29_DiffReset ==
    (hpc = "scanning" /\ Running(ost) /\ read # <<>>) =>
        /\ LastRead = DetailsEdit => ost.totalContentOutputLength = 0
        /\ FirstSnapshotOfRun =>
               ost.out[Len(ost.out)] = [kind |-> "content", text |-> LastRead.edit]

(***************************************************************************)
(* A run of snapshots that grow                                            *)
(***************************************************************************)
\* the lines read are other/tool_call snapshots, each beginning with the one
\* before it
GrowingRun ==
    /\ read # <<>>
    /\ \A i \in DOMAIN read : read[i] \in {OtherAb, OtherAbc, ToolAbcde}
    /\ \A i \in 1..(Len(read) - 1) : HasPrefix(read[i + 1].edit, read[i].edit)

\* C30: over a run of other/tool_call snapshots of which each begins with
\* the one before it, a snapshot repeated unchanged included, the content the
\* OpenAI stream has written is the last snapshot
C30_NoDuplication ==
    (hpc = "scanning" /\ Running(ost) /\ GrowingRun) => StreamContentText = LastRead.edit

\* the same for the runs in which every snapshot is longer than the one before
NoDuplicationWhenLonger ==
    (hpc = "scanning" /\ Running(ost) /\ GrowingRun
         /\ \A i \in 1..(Len(read) - 1) : Len(read[i + 1].edit) > Len(read[i].edit)) =>
        StreamContentText = LastRead.edit

(***************************************************************************)
(* The channel of the bibliography                                         *)
(***************************************************************************)
\* an event that gives answer content, as a delta or as a snapshot
IsAnswerContent(u) ==
    u.kind = "event" /\ u.phase = "answer" /\ (u.delta # <<>> \/ u.edit # <<>>)

\* a thinking delta has been processed and no answer content has followed it
InThinkingRound(lines) ==
    \E j \in DOMAIN lines :
        /\ IsThinkingDelta(lines[j])
        /\ \A k \in (j + 1)..Len(lines) : ~IsAnswerContent(lines[k])

\* a step of the OpenAI stream writes the bibliography as a chunk of kind
BibliographyWritten(kind) ==
    \E i \in DOMAIN Added(ost.out, ost'.out) :
        /\ Added(ost.out, ost'.out)[i].kind = kind
        /\ Added(ost.out, ost'.out)[i].text \in GetSearchResultsMarkdown(ost'.searchRefFilter)

\* a step of the aggregating handler collects the bibliography
BibliographyCollected(before, after) ==
    \E i \in DOMAIN Added(before, after) :
        Added(before, after)[i] \in GetSearchResultsMarkdown(ons'.searchRefFilter)

\* C31: the OpenAI stream writes the bibliography as reasoning_content when
\* it is written while the response is inside a thinking round (a thinking
\* delta was processed and no answer content followed it) and as content
\* otherwise, never on both channels, and on the channel on which the
\* aggregating handler collects it for the same lines
C31_BibliographyChannel ==
    [][\A u \in pool :
           (hpc = "scanning" /\ read' = Append(read, u) /\ Running(ost) /\ Running(ons)) =>
               /\ BibliographyWritten("reasoning") => InThinkingRound(read)
               /\ BibliographyWritten("content") => ~InThinkingRound(read)
               /\ ~(BibliographyWritten("reasoning") /\ BibliographyWritten("content"))
               /\ BibliographyWritten("reasoning") <=>
                      BibliographyCollected(ons.reasoningChunks, ons'.reasoningChunks)
               /\ BibliographyWritten("content") <=>
                      BibliographyCollected(ons.chunks, ons'.chunks)]_vars

\* what holds of the stream: the bibliography is written as content only,
\* and the aggregating handler collects it as content as long as no thinking
\* delta was read
BibliographyAsContent ==
    [][\A u \in pool :
           (hpc = "scanning" /\ read' = Append(read, u) /\ Running(ost) /\ Running(ons)) =>
               /\ ~BibliographyWritten("reasoning")
               /\ BibliographyWritten("content") <=>
                      \/ BibliographyCollected(ons.chunks, ons'.chunks)
                      \/ BibliographyCollected(ons.reasoningChunks, ons'.reasoningChunks)
               /\ (\A j \in DOMAIN read : ~IsThinkingDelta(read[j])) =>
                      ~BibliographyCollected(ons.reasoningChunks, ons'.reasoningChunks)]_vars

(***************************************************************************)
(* The registry of one citation filter under any sequence of its methods   *)
(***************************************************************************)
MaxOps == 3
MaxIndex == 3
MaxBatch == 2

RefOther == Turn \o <<"0">> \o Search \o <<"2">>
RegistryRefs == {RefShort, RefLong, RefOther}

\* a title that needs no escaping and one that does, each with its URL
RegistryPages == {[title |-> <<"X">>, url |-> UrlE], [title |-> <<"[", "Y", "]", "\\">>, url |-> UrlF]}

RegistryRecords ==
    {SearchResult(p.title, p.url, i, k) : p \in RegistryPages, i \in 1..MaxIndex, k \in RegistryRefs}

RECURSIVE RegistryBatches(_)
RegistryBatches(n) ==
    IF n = 0 THEN {<<>>}
    ELSE LET shorter == RegistryBatches(n - 1)
         IN  shorter \cup {Append(b, r) : b \in {s \in shorter : Len(s) = n - 1}, r \in RegistryRecords}

\* the texts given to Process: one that leaves an opened token in the
\* buffer, one that closes it, one without a token
RegistryTexts == {SeeText, TailText, HiText}

RegistryInit ==
    /\ input = <<>>
    /\ pos = 0
    /\ filter = NewSearchRefFilter
    /\ emitted = <<>>
    /\ fpc = "NewSearchRefFilter"
    /\ HandlersIdle
    /\ PureIdle

\* f.AddSearchResults(results); input keeps the slice that was passed
RegistryAdd(results) ==
    /\ pos < MaxOps
    /\ pos' = pos + 1
    /\ input' = results
    /\ filter' = AddSearchResults(filter, results)
    /\ fpc' = "AddSearchResults"
    /\ UNCHANGED <<emitted, pool, read, ost, ons, cst, cns, hpc, pureVars, req, conc>>

\* f.Process(text)
RegistryProcess(text) ==
    /\ pos < MaxOps
    /\ pos' = pos + 1
    /\ LET r == SearchRefFilterProcess(filter, text)
       IN  /\ filter' = r.f
           /\ emitted' = r.out
    /\ fpc' = "Process"
    /\ UNCHANGED <<input, pool, read, ost, ons, cst, cns, hpc, pureVars, req, conc>>

\* f.Flush()
RegistryFlush ==
    /\ pos < MaxOps
    /\ pos' = pos + 1
    /\ LET r == SearchRefFilterFlush(filter)
       IN  /\ filter' = r.f
           /\ emitted' = r.out
    /\ fpc' = "Flush"
    /\ UNCHANGED <<input, pool, read, ost, ons, cst, cns, hpc, pureVars, req, conc>>

\* f.GetSearchResultsMarkdown(), with the map ranged over in any order
RegistryMarkdown ==
    /\ pos < MaxOps
    /\ pos' = pos + 1
    /\ emitted' \in GetSearchResultsMarkdown(filter)
    /\ fpc' = "GetSearchResultsMarkdown"
    /\ UNCHANGED <<input, filter, pool, read, ost, ons, cst, cns, hpc, pureVars, req, conc>>

RegistryNext ==
    \/ \E results \in RegistryBatches(MaxBatch) : RegistryAdd(results)
    \/ \E text \in RegistryTexts : RegistryProcess(text)
    \/ RegistryFlush
    \/ RegistryMarkdown

SpecRegistry == RegistryInit /\ [][RegistryNext]_vars

\* the number of line ends in a text
RECURSIVE LineEnds(_)
LineEnds(s) ==
    IF s = <<>> THEN 0 ELSE (IF Head(s) = "\n" THEN 1 ELSE 0) + LineEnds(Tail(s))

\* text lists every record of the registry exactly once, one line for each,
\* by ascending Index, and ends with an empty line
ListsRegistry(text, searchResults) ==
    \E rs \in MapOrders(searchResults) :
        /\ \A i \in 1..Len(rs), j \in 1..Len(rs) : i < j => rs[i].Index <= rs[j].Index
        /\ text = SourceLines(rs) \o <<"\n">>
        /\ LineEnds(text) = Cardinality(DOMAIN searchResults) + 1

RECURSIVE LastWith(_, _, _)
LastWith(results, refID, earlier) ==
    IF results = <<>> THEN earlier
    ELSE LastWith(Tail(results), refID,
                  IF Head(results).RefID = refID THEN Head(results) ELSE earlier)

AddedRefs(results) == {results[i].RefID : i \in DOMAIN results}

\* C33: no method of the citation filter removes a refId from the registry;
\* AddSearchResults leaves under every refId of its slice the last record of
\* the slice with that refId, replacing an earlier record, and leaves every
\* other record as it was; Process, Flush and GetSearchResultsMarkdown leave
\* the registry unchanged
C33_RegistryAccumulates ==
    [][/\ DOMAIN filter.searchResults \subseteq DOMAIN filter'.searchResults
       /\ fpc' \in {"Process", "Flush", "GetSearchResultsMarkdown"} =>
              filter'.searchResults = filter.searchResults
       /\ fpc' = "AddSearchResults" =>
              /\ DOMAIN filter'.searchResults = DOMAIN filter.searchResults \cup AddedRefs(input')
              /\ \A k \in DOMAIN filter'.searchResults :
                     filter'.searchResults[k] =
                         IF k \in AddedRefs(input')
                         THEN LastWith(input', k, filter'.searchResults[k])
                         ELSE filter.searchResults[k]]_vars

\* a record was replaced by a later one with the same refId and another Index,
\* and Process has run since with a token held back in the buffer
C33_Witness ==
    /\ fpc = "Process"
    /\ filter.buffer # <<>>
    /\ Len(input) = 2
    /\ input[1].RefID = RefShort /\ input[2].RefID = RefShort
    /\ input[1].Index = 1 /\ input[2].Index = 2
    /\ DOMAIN filter.searchResults = {RefShort, RefLong}
    /\ filter.searchResults[RefShort] = input[2]

(***************************************************************************)
(* The envelope of the chunks of one OpenAI streaming response: pos is the *)
(* clock time.Now().Unix() reads, counted from the second in which the     *)
(* request was accepted; input holds completionID and modelName as         *)
(* HandleChatCompletions passes them; emitted holds ID, Model and Created  *)
(* of each chunk written, in order                                         *)
(***************************************************************************)
MaxSeconds == 2

CompletionIDs == {"chatcmpl-1", "chatcmpl-2"}
ModelNames == {"GLM-4.6", "GLM-4.6-thinking"}

\* a thinking delta and an answer delta that each end inside a citation token
ThinkCiteText == <<">", " ", "w", LB, "t", "u", "r", "n", "7">>
HiCiteText == <<"H", "i", LB, "t", "u", "r", "n", "3">>
ThinkCite == Event("thinking", ThinkCiteText, <<>>)
AnsCite == Event("answer", HiCiteText, <<>>)
PoolChannels == {ThinkCite, AnsCite, ThinkQ, AnsHi}

CreatedInit ==
    /\ input \in [ID : CompletionIDs, Model : ModelNames]
    /\ pos = 0
    /\ emitted = <<>>
    /\ pool \in {PoolCite, PoolChannels}
    /\ read = <<>>
    /\ ost = NewStream
    /\ ons = NewNonStream
    /\ cst = NewClaudeStream
    /\ cns = NewClaudeNonStream
    /\ hpc = "scanning"
    /\ filter = NewSearchRefFilter
    /\ fpc = "idle"
    /\ PureIdle

\* the envelopes of the chunks h1 has written beyond those of h, each built
\* with ID: completionID, Created: time.Now().Unix(), Model: modelName; the
\* line "data: [DONE]" is no chunk
Envelopes(h, h1) ==
    LET added == SelectSeq(Added(h.out, h1.out), LAMBDA c : c.kind # "DONE")
    IN  [i \in DOMAIN added |-> [ID |-> input.ID, Model |-> input.Model, Created |-> pos]]

\* a second passes while the handler waits for the next line
CreatedTick ==
    /\ hpc = "scanning"
    /\ pos < MaxSeconds
    /\ pos' = pos + 1
    /\ UNCHANGED <<input, filter, emitted, fpc, pool, read, ost, ons, cst, cns, hpc, pureVars, req, conc>>

\* one pass of the scan loop of handleStreamResponse
CreatedScan(u) ==
    /\ hpc = "scanning"
    /\ Len(read) < MaxLines
    /\ ~Ends(u)
    /\ Running(ost)
    /\ read' = Append(read, u)
    /\ ost' \in StreamStep(ost, u)
    /\ emitted' = emitted \o Envelopes(ost, ost')
    /\ UNCHANGED <<input, pos, filter, fpc, pool, ons, cst, cns, hpc, pureVars, req, conc>>

\* the loop ends, at the sentinel or an event of phase done (read grows) or
\* at the end of the body, and the closing code writes its chunks
CreatedClose(lines) ==
    /\ hpc = "scanning"
    /\ read' = read \o lines
    /\ hpc' = "closed"
    /\ ost' \in Moves(ost, {StreamFinish(ost)})
    /\ emitted' = emitted \o Envelopes(ost, ost')
    /\ UNCHANGED <<input, pos, filter, fpc, pool, ons, cst, cns, pureVars, req, conc>>

CreatedNext ==
    \/ CreatedTick
    \/ \E u \in pool : CreatedScan(u)
    \/ \E u \in {Sentinel, DoneEvent} : CreatedClose(<<u>>)
    \/ CreatedClose(<<>>)

SpecCreated == CreatedInit /\ [][CreatedNext]_vars

\* C34: every chunk of one OpenAI streaming response carries the same id,
\* model and created, fixed when the request was accepted, however much time
\* passes between the chunks
C34_OneEnvelope ==
    \A i \in DOMAIN emitted :
        emitted[i] = [ID |-> input.ID, Model |-> input.Model, Created |-> 0]

\* what holds: id and model are those of the request in every chunk, and
\* created never decreases from one chunk to the next
OneIdAndModel ==
    /\ Len(emitted) = Len(SelectSeq(ost.out, LAMBDA c : c.kind # "DONE"))
    /\ \A i \in DOMAIN emitted :
           /\ emitted[i].ID = input.ID /\ emitted[i].Model = input.Model
           /\ \A j \in DOMAIN emitted : i < j => emitted[i].Created <= emitted[j].Created

(***************************************************************************)
(* The two Claude handlers over the same body                              *)
(***************************************************************************)
\* C35: once both Claude handlers are through with the same upstream lines,
\* the text of the aggregated message is the texts of the content_block_delta
\* events of the stream joined in order, also when a thinking delta comes
\* between a search-result block and the next content and when a citation
\* token comes before its result is registered
C35_ClaudeStreamEqualsNonStream ==
    (hpc = "closed" /\ cst.pc = "done" /\ cns.pc = "done") =>
        ClaudeStreamText = ClaudeNonStreamText

\* the same when no thinking delta was read and every search-result block
\* that registered results came before all the text
ClaudeStreamEqualsNonStreamPlain ==
    (/\ hpc = "closed" /\ cst.pc = "done" /\ cns.pc = "done"
     /\ \A i \in DOMAIN read : ~IsThinkingDelta(read[i])
     /\ \A i \in Batches : \A j \in 1..i : j \in Batches) =>
        ClaudeStreamText = ClaudeNonStreamText

(***************************************************************************)
(* The two channels of the OpenAI stream                                   *)
(***************************************************************************)
\* the characters only the thinking deltas of PoolChannels hold, and those
\* only its answer deltas hold
ReasoningOnly == {"q", "w", "7"}
ContentOnly == {"H", "i", "3"}

\* no text of an answer delta is in a reasoning chunk
NoContentInReasoning == pool = PoolChannels => ~HasMark(StreamReasoningText, ContentOnly)

\* no text of a thinking delta is in a content chunk
NoReasoningInContent == pool = PoolChannels => ~HasMark(StreamContentText, ReasoningOnly)

\* C36: in the OpenAI stream the text of a thinking delta is written in
\* reasoning chunks only and the text of an answer delta in content chunks
\* only, also the beginning of a citation token that the citation filter
\* held back at the end of a delta of the other kind
C36_ChannelSeparation == NoContentInReasoning /\ NoReasoningInContent

\* the same for the bodies in which no delta ends inside a citation token
ChannelSeparationWithoutPrefix ==
    (\A i \in DOMAIN read : read[i] \notin {ThinkCite, AnsCite}) => C36_ChannelSeparation

(***************************************************************************)
(* Embedded blocks and the client                                          *)
(***************************************************************************)
\* the characters of the upstream lines that only the JSON of an embedded
\* block holds
EmbeddedMarks == {"{", "}"}

StreamKeepsBlocks ==
    ~HasMark(StreamContentText, EmbeddedMarks) /\ ~HasMark(StreamReasoningText, EmbeddedMarks)

NonStreamKeepsBlocks ==
    ~HasMark(NonStreamContentText, EmbeddedMarks)
        /\ ~HasMark(NonStreamReasoningText, EmbeddedMarks)

ClaudeStreamKeepsBlocks == ~HasMark(ClaudeStreamText, EmbeddedMarks)

ClaudeNonStreamKeepsBlocks == ~HasMark(ClaudeNonStreamText, EmbeddedMarks)

\* C37: none of the four handlers sends the client any of the JSON of an
\* embedded block; of a snapshot that holds the tag <glm_block only the text
\* before the tag is sent
C37_BlocksNeverEmitted ==
    /\ StreamKeepsBlocks
    /\ NonStreamKeepsBlocks
    /\ ClaudeStreamKeepsBlocks
    /\ ClaudeNonStreamKeepsBlocks

\* the two OpenAI handlers, for the bodies without a block the handlers do
\* not recognize
OpenAIKeepsRecognizedBlocks ==
    (\A i \in DOMAIN read : read[i] # ToolAfter) => StreamKeepsBlocks /\ NonStreamKeepsBlocks

\* a snapshot in which a text comes before the block
HoldsBlockAfterText(u) == u.kind = "event" /\ Index(u.edit, GlmBlock) > 1

\* what holds: a snapshot recognized as a search-result block gives no text
\* in any handler, and the OpenAI stream writes of a snapshot recognized as an
\* image-search block or as a block that names "mcp" the text before the tag,
\* without the line end, and nothing else
RecognizedBlocksKept ==
    [][\A u \in pool :
           (hpc = "scanning" /\ read' = Append(read, u) /\ u.edit # <<>>) =>
               /\ IsSearchResultContent(u.edit) =>
                      /\ TextOfKind(Added(ost.out, ost'.out), "content") \in
                             {<<>>} \cup GetSearchResultsMarkdown(ost.searchRefFilter)
                      /\ ons'.chunks = ons.chunks
                      /\ cst'.out = cst.out
                      /\ cns'.chunks = cns.chunks
               /\ (/\ ~IsSearchResultContent(u.edit)
                   /\ Contains(u.edit, QuotedSearchImage) \/ Contains(u.edit, QuotedMcp)
                   /\ HoldsBlockAfterText(u)
                   /\ Running(ost) /\ ost.searchRefFilter.buffer = <<>>) =>
                      Added(ost.out, ost'.out) =
                          <<[kind |-> "content", text |-> ExtractTextBeforeGlmBlock(u.edit)]>>]_vars

====
